---- MODULE Spec2Model ----
(***************************************************************************)
(* A state-machine model of the glowberry background engine                *)
(* (crates/glowberry-lib/src/engine.rs), its fragment canvas               *)
(* (fragment_canvas.rs), its power monitor (upower.rs) and the             *)
(* power-saving configuration (config/src/power_saving.rs).                *)
(*                                                                         *)
(* One action per event handler of the single-threaded event loop; the     *)
(* power monitor thread and the configuration store are separate actions.  *)
(* Time is counted in ticks of 1/60 s, the shortest frame interval a       *)
(* canvas can have (frame rate 60).                                        *)
(***************************************************************************)
EXTENDS Integers, Sequences, FiniteSets, TLC

\* ------------------------------------------------------------------ bounds

\* Pairs a UserContext may hold.
MaxVars == 3
\* Pieces of a shader file name.
MaxName == 3
\* The widest of the small image widths.
MaxWidth == 130
\* Paths an image queue may hold at startup.
MaxQueue == 2
\* Layer surfaces the engine may create in one run (new_layer calls).
MaxSurfaces == 3
\* The clock stops advancing at MaxTime ticks.
MaxTime == 2
\* Frame callbacks that may be outstanding on one surface.
MaxCallbacks == 2
\* Per-output entries (config.backgrounds) the store may hold.
MaxEntries == 1
\* Keys one change batch of the config watcher may carry.
MaxKeys == 1
\* Writes of power-saving keys the settings application makes in one run.
MaxWrites == 1

\* ------------------------------------------------------- Option<T> values

None == <<>>
Some(x) == <<x>>
IsSome(o) == o # <<>>
IsNone(o) == o = <<>>
Unwrap(o) == o[1]
UnwrapOr(o, d) == IF o = <<>> THEN d ELSE o[1]

\* ------------------------------------------------ outputs (compositor side)

\* The wl_output handles the compositor can announce.
Outputs == {1, 2}

\* OutputInfo of a wl_output as sctk's OutputState reports it: the name
\* (None when the compositor sent none), the integer scale factor and the
\* dimensions of the current mode (None when no mode is marked current).
output_info(o) ==
    CASE o = 1 -> [name |-> Some("DP-1"), scale_factor |-> 1, mode |-> Some(<<8, 4>>)]
      [] o = 2 -> [name |-> None, scale_factor |-> 2, mode |-> None]

\* ------------------------------------------------------- config data model

\* Source of an entry. Path, Color are the static kinds; a Shader carries its
\* frame rate.
PathSource == [kind |-> "Path", frame_rate |-> 0]
ShaderSource(rate) == [kind |-> "Shader", frame_rate |-> rate]
Sources == {PathSource, ShaderSource(30)}

\* Entry { output, source }: output is "all" or an output name.
Entry(output, source) == [output |-> output, source |-> source]
EntryNames == {"DP-1"}

\* String order of the selectors used by the engine's sort_by calls.
NameKey(n) ==
    CASE n = "DP-1" -> 1
      [] n = "HDMI-1" -> 2
      [] n = "all" -> 3
      [] OTHER -> 4

\* ------------------------------------------- power saving (power_saving.rs)

OnBatteryActions == {"Nothing", "Pause", "ReduceTo15Fps", "ReduceTo10Fps", "ReduceTo5Fps"}

\* OnBatteryAction::frame_rate.
OnBatteryAction_frame_rate(action) ==
    CASE action = "Nothing" -> None
      [] action = "Pause" -> None
      [] action = "ReduceTo15Fps" -> Some(15)
      [] action = "ReduceTo10Fps" -> Some(10)
      [] action = "ReduceTo5Fps" -> Some(5)

\* impl Default for PowerSavingConfig.
PowerSavingConfig_default ==
    [pause_on_fullscreen |-> FALSE,
     pause_on_covered |-> FALSE,
     coverage_threshold |-> 90,
     adjust_on_battery |-> FALSE,
     on_battery_action |-> "Pause",
     pause_on_low_battery |-> TRUE,
     low_battery_threshold |-> 20,
     pause_on_lid_closed |-> TRUE]

\* The power-saving keys of the store: each key is absent (None) or holds a
\* value.
EmptyPowerStore ==
    [pause_on_fullscreen |-> None,
     pause_on_covered |-> None,
     coverage_threshold |-> None,
     adjust_on_battery |-> None,
     on_battery_action |-> None,
     pause_on_low_battery |-> None,
     low_battery_threshold |-> None,
     pause_on_lid_closed |-> None]

\* A load that never reads the low-battery threshold from the store.
PowerSavingConfig_load_fixed_threshold(context) ==
    [pause_on_fullscreen |-> UnwrapOr(context.pause_on_fullscreen, FALSE),
     pause_on_covered |-> UnwrapOr(context.pause_on_covered, FALSE),
     coverage_threshold |-> UnwrapOr(context.coverage_threshold, 90),
     adjust_on_battery |-> UnwrapOr(context.adjust_on_battery, FALSE),
     on_battery_action |-> UnwrapOr(context.on_battery_action, "Nothing"),
     pause_on_low_battery |-> UnwrapOr(context.pause_on_low_battery, TRUE),
     low_battery_threshold |-> 20,
     pause_on_lid_closed |-> UnwrapOr(context.pause_on_lid_closed, TRUE)]

\* PowerSavingConfig::load: every key read from the store with its own
\* fallback (on_battery_action falls back to OnBatteryAction::default()).
PowerSavingConfig_load(context) ==
    [pause_on_fullscreen |-> UnwrapOr(context.pause_on_fullscreen, FALSE),
     pause_on_covered |-> UnwrapOr(context.pause_on_covered, FALSE),
     coverage_threshold |-> UnwrapOr(context.coverage_threshold, 90),
     adjust_on_battery |-> UnwrapOr(context.adjust_on_battery, FALSE),
     on_battery_action |-> UnwrapOr(context.on_battery_action, "Nothing"),
     pause_on_low_battery |-> UnwrapOr(context.pause_on_low_battery, TRUE),
     low_battery_threshold |-> UnwrapOr(context.low_battery_threshold, 20),
     pause_on_lid_closed |-> UnwrapOr(context.pause_on_lid_closed, TRUE)]

\* Values the settings application writes to the power-saving keys.
PowerKeyValues(key) ==
    CASE key = "on_battery_action" -> OnBatteryActions
      [] key = "low_battery_threshold" -> {10, 20}
      [] key = "coverage_threshold" -> {50, 90}
      [] OTHER -> BOOLEAN

PowerKeys == DOMAIN EmptyPowerStore

\* ------------------------------------------------- power state (upower.rs)

\* impl Default for PowerState.
PowerState_default ==
    [on_battery |-> FALSE, battery_percentage |-> None, lid_is_closed |-> FALSE]

\* Battery percentages the display device reports (an f64 in the code; the
\* values stand for below, at and above the thresholds 10 and 20).
Percentages == {19, 20, 80}

PowerStates ==
    [on_battery : BOOLEAN,
     battery_percentage : {None} \cup {Some(p) : p \in Percentages},
     lid_is_closed : BOOLEAN]

\* A pause decision that also pauses when pause_on_fullscreen is set.
should_pause_animation_reads_fullscreen(power_monitor, config) ==
    IF IsNone(power_monitor) THEN FALSE
    ELSE LET power_state == Unwrap(power_monitor) IN
         IF config.pause_on_fullscreen THEN TRUE
         ELSE IF config.pause_on_lid_closed /\ power_state.lid_is_closed THEN TRUE
         ELSE IF config.pause_on_low_battery
                 /\ IsSome(power_state.battery_percentage)
                 /\ Unwrap(power_state.battery_percentage) <= config.low_battery_threshold
              THEN TRUE
         ELSE IF power_state.on_battery /\ config.on_battery_action = "Pause" THEN TRUE
         ELSE FALSE

\* A pause decision that never looks at the lid.
should_pause_animation_ignores_lid(power_monitor, config) ==
    IF IsNone(power_monitor) THEN FALSE
    ELSE LET power_state == Unwrap(power_monitor) IN
         IF config.pause_on_low_battery
            /\ IsSome(power_state.battery_percentage)
            /\ Unwrap(power_state.battery_percentage) <= config.low_battery_threshold
         THEN TRUE
         ELSE IF power_state.on_battery /\ config.on_battery_action = "Pause" THEN TRUE
         ELSE FALSE

\* CosmicBg::should_pause_animation. power_monitor is the Option of the
\* handle: None, or Some(the PowerState its watch cell holds).
should_pause_animation(power_monitor, config) ==
    IF IsNone(power_monitor) THEN FALSE
    ELSE LET power_state == Unwrap(power_monitor) IN
         IF config.pause_on_lid_closed /\ power_state.lid_is_closed THEN TRUE
         ELSE IF config.pause_on_low_battery
                 /\ IsSome(power_state.battery_percentage)
                 /\ Unwrap(power_state.battery_percentage) <= config.low_battery_threshold
              THEN TRUE
         ELSE IF power_state.on_battery /\ config.on_battery_action = "Pause" THEN TRUE
         ELSE FALSE

\* CosmicBg::effective_frame_rate.
effective_frame_rate(power_monitor, config) ==
    IF IsNone(power_monitor) THEN None
    ELSE IF Unwrap(power_monitor).on_battery
         THEN OnBatteryAction_frame_rate(config.on_battery_action)
         ELSE None

\* ----------------------------------------- fragment canvas (fragment_canvas.rs)

\* u8::clamp(1, 60).
clamp_frame_rate(rate) == IF rate < 1 THEN 1 ELSE IF rate > 60 THEN 60 ELSE rate

\* Duration::from_secs_f64(1.0 / rate), in whole nanoseconds.
frame_interval_of(rate) == 1000000000 \div rate

\* Instant::elapsed of last_frame at the time now_, in whole nanoseconds:
\* the clock counts ticks of 1/60 s.
elapsed(canvas, now_) == ((now_ - canvas.last_frame) * 100000000) \div 6

\* FragmentCanvas::new (its animation state; the GPU resources it builds are
\* not part of the state).
FragmentCanvas_new(source, now_) ==
    [resolution |-> None,
     start_time |-> now_,
     last_frame |-> now_,
     frame_interval |-> frame_interval_of(clamp_frame_rate(source.frame_rate)),
     configured_frame_rate |-> clamp_frame_rate(source.frame_rate)]

\* FragmentCanvas::update_resolution.
update_resolution(canvas, width, height) ==
    [canvas EXCEPT !.resolution = Some(<<width, height>>)]

\* A pacing test that wants more than the frame interval to have passed.
should_render_strict(canvas, now_) == elapsed(canvas, now_) > canvas.frame_interval

\* FragmentCanvas::should_render.
should_render(canvas, now_) == elapsed(canvas, now_) >= canvas.frame_interval

\* A variant that leaves last_frame as it is.
mark_frame_rendered_keeps_last_frame(canvas, now_) == canvas

\* FragmentCanvas::mark_frame_rendered.
mark_frame_rendered(canvas, now_) == [canvas EXCEPT !.last_frame = now_]

\* An override that also becomes the configured rate.
set_frame_rate_override_replaces_configured(canvas, frame_rate) ==
    [canvas EXCEPT
        !.frame_interval =
            frame_interval_of(clamp_frame_rate(UnwrapOr(frame_rate, canvas.configured_frame_rate))),
        !.configured_frame_rate =
            clamp_frame_rate(UnwrapOr(frame_rate, canvas.configured_frame_rate))]

\* FragmentCanvas::set_frame_rate_override.
set_frame_rate_override(canvas, frame_rate) ==
    [canvas EXCEPT !.frame_interval =
        frame_interval_of(clamp_frame_rate(UnwrapOr(frame_rate, canvas.configured_frame_rate)))]

\* ---------------------------------------------------- building a canvas

\* Path::extension of a file name given as its pieces, "." being the dot:
\* what follows the last dot, None when there is no dot, when the only dot
\* is the first character, and for "..".
extension(file_name) ==
    LET dots == {i \in 1..Len(file_name) : file_name[i] = "."}
        last == CHOOSE i \in dots : \A k \in dots : k <= i
    IN IF dots = {} \/ file_name = <<".", ".">> THEN None
       ELSE IF last = 1 THEN None
       ELSE Some(SubSeq(file_name, last + 1, Len(file_name)))

\* detect_language.
detect_language(source) ==
    IF /\ source.shader.kind = "Path"
       /\ extension(source.shader.file_name) \in {Some(<<"glsl">>), Some(<<"frag">>)}
    THEN "Glsl"
    ELSE source.language

\* build_shader_source: Ok, or the error.
build_shader_source(language) ==
    IF language = "Wgsl" THEN "Ok" ELSE "UnsupportedLanguage(Glsl)"

\* FragmentCanvas::new, as far as its Result goes: Ok, or the error of the
\* first step that fails. The shader file is read, then the background image
\* is opened, then the shader source is built.
FragmentCanvas_new_result(source) ==
    IF source.shader.kind = "Path" /\ ~source.shader.readable THEN "Io"
    ELSE IF source.background_image = Some(FALSE) THEN "ImageLoad"
    ELSE build_shader_source(detect_language(source))

\* ------------------------------------------------------- u32 arithmetic

\* A u32 is a pair <<high, low>> of 16-bit halves, so that every value of
\* the type can be written down and no sum or product leaves the range the
\* checker computes in.
Half == 65536
u32(n) == <<n \div Half, n % Half>>
u32_MAX == <<Half - 1, Half - 1>>

\* The number a u32 stands for, when it is below 2^31.
as_int(x) == x[1] * Half + x[2]

\* x * k as a pair whose high half is not cut off (k below 2^15).
wide_mul(x, k) == <<x[1] * k + (x[2] * k) \div Half, (x[2] * k) % Half>>

\* x + k as a pair whose high half is not cut off (k below 2^16).
wide_add(x, k) == <<x[1] + (x[2] + k) \div Half, (x[2] + k) % Half>>

\* u32::saturating_mul(x, k).
saturating_mul(x, k) == IF wide_mul(x, k)[1] >= Half THEN u32_MAX ELSE wide_mul(x, k)

\* x <= y for pairs.
pair_le(x, y) == x[1] < y[1] \/ (x[1] = y[1] /\ x[2] <= y[2])

\* ------------------------------------------------------- texture upload

\* wgpu::COPY_BYTES_PER_ROW_ALIGNMENT.
COPY_BYTES_PER_ROW_ALIGNMENT == 256

\* aligned_bytes_per_row: [panicked, value]. The `+` is a plain u32
\* addition: when it overflows, a build with overflow checks panics and a
\* build without them wraps.
aligned_bytes_per_row(width, bytes_per_pixel, overflow_checks) ==
    LET unpadded == saturating_mul(width, bytes_per_pixel)
        alignment == COPY_BYTES_PER_ROW_ALIGNMENT
        sum == wide_add(unpadded, alignment - 1)
        wrapped == <<sum[1] % Half, sum[2]>>
        quotient == wrapped[1] * (Half \div alignment) + wrapped[2] \div alignment
    IN IF sum[1] >= Half /\ overflow_checks
       THEN [panicked |-> TRUE, value |-> u32(0)]
       ELSE [panicked |-> FALSE,
             value |-> <<quotient \div (Half \div alignment),
                         (quotient % (Half \div alignment)) * alignment>>]

\* An RGBA slice is [len, pattern]: its length and the rule that gives the
\* byte at each index, so that a slice too long to write out can be given.
byte_of(pattern, index) ==
    IF pattern = "ones" THEN 1 ELSE (index * 7 + 3) % 256

\* The rows of texture_upload_data's loop from `row` on, copied into padded:
\* [panicked, padded]. A slice that reaches past the end of rgba or of
\* padded panics. Offsets are u32 products cast to usize.
RECURSIVE copy_rows(_, _, _, _, _, _)
copy_rows(rgba, padded, row, height, unpadded_bytes_per_row, bytes_per_row) ==
    IF row >= height THEN [panicked |-> FALSE, padded |-> padded]
    ELSE LET src_offset == as_int(u32(row * unpadded_bytes_per_row))
             dst_wide == wide_mul(u32(row), bytes_per_row)
             dst_offset == as_int(<<dst_wide[1] % Half, dst_wide[2]>>)
             src_end == src_offset + unpadded_bytes_per_row
         IN IF \/ dst_offset + unpadded_bytes_per_row > Len(padded)
               \/ src_end > rgba.len
            THEN [panicked |-> TRUE, padded |-> padded]
            ELSE copy_rows(rgba,
                           [i \in 1..Len(padded) |->
                               IF i > dst_offset /\ i <= dst_offset + unpadded_bytes_per_row
                               THEN byte_of(rgba.pattern, src_offset + (i - dst_offset - 1))
                               ELSE padded[i]],
                           row + 1, height, unpadded_bytes_per_row, bytes_per_row)

\* What texture_upload_data returns when it returns, and that it panicked
\* when it does not.
Upload(panicked, kind, data, bytes_per_row, rows) ==
    [panicked |-> panicked, kind |-> kind, data |-> data,
     bytes_per_row |-> bytes_per_row, rows |-> rows]

\* texture_upload_data (width and height below 2^31 here). The length of
\* the padded buffer is a u32 product: when it overflows, a build with
\* overflow checks panics and a build without them allocates the wrapped
\* length.
texture_upload_data(rgba, width, height, overflow_checks) ==
    LET unpadded_bytes_per_row == as_int(saturating_mul(u32(width), 4))
        aligned == aligned_bytes_per_row(u32(width), 4, overflow_checks)
        bytes_per_row == as_int(aligned.value)
        total == wide_mul(u32(height), bytes_per_row)
        copied == copy_rows(rgba, [i \in 1..as_int(<<total[1] % Half, total[2]>>) |-> 0],
                            0, height, unpadded_bytes_per_row, bytes_per_row)
    IN IF aligned.panicked THEN Upload(TRUE, "none", <<>>, 0, 0)
       ELSE IF bytes_per_row = unpadded_bytes_per_row
       THEN Upload(FALSE, "Borrowed", rgba, bytes_per_row, height)
       ELSE IF total[1] >= Half /\ overflow_checks THEN Upload(TRUE, "none", <<>>, 0, 0)
       ELSE IF copied.panicked THEN Upload(TRUE, "none", <<>>, 0, 0)
       ELSE Upload(FALSE, "Owned", copied.padded, bytes_per_row, height)

\* ------------------------------------------------------ physical size

\* A variant that prefers the output's mode to the layer's size.
shader_physical_size_mode_first(layer_size, fractional_scale, output_mode_dims) ==
    IF IsSome(output_mode_dims) THEN Unwrap(output_mode_dims)
    ELSE LET size == UnwrapOr(layer_size, <<1920, 1080>>)
             scale == UnwrapOr(fractional_scale, 120)
         IN <<(size[1] * scale) \div 120, (size[2] * scale) \div 120>>

\* CosmicBg::shader_physical_size.
shader_physical_size(layer_size, fractional_scale, output_mode_dims) ==
    IF IsSome(layer_size)
    THEN LET scale == UnwrapOr(fractional_scale, 120) IN
         <<(Unwrap(layer_size)[1] * scale) \div 120, (Unwrap(layer_size)[2] * scale) \div 120>>
    ELSE IF IsSome(output_mode_dims) THEN Unwrap(output_mode_dims)
    ELSE LET scale == UnwrapOr(fractional_scale, 120) IN
         <<(1920 * scale) \div 120, (1080 * scale) \div 120>>

\* CosmicBg::shader_layer_physical_size.
shader_layer_physical_size(layer) ==
    shader_physical_size(layer.size, layer.fractional_scale, output_info(layer.wl_output).mode)

\* ------------------------------------------------- calls of pure functions

\* No function is being called.
NoCall == [pc |-> "none", fn |-> "", args |-> <<>>, result |-> None]

\* Function fn was called with args and has not returned.
Called(fn, args) == [pc |-> "called", fn |-> fn, args |-> args, result |-> None]

\* The call c has returned result.
Returned(c, result) == [c EXCEPT !.pc = "returned", !.result = Some(result)]

\* ---------------------------------------------------- the dispatch loop

\* The loop of run_with_stop while it dispatches, with or without a stop
\* channel: no message in the channel, its sender alive, Closed not
\* delivered.
Dispatching(stop_rx) ==
    [stop_rx |-> stop_rx, msgs |-> 0, sender |-> TRUE, closed |-> FALSE, pc |-> "dispatching"]

\* ------------------------------------------------------------- the state

VARIABLES
    \* CosmicBg (engine.rs:437-460)
    wallpapers,           \* Vec<Wallpaper>: records [entry, layers]
    config,               \* Config: [backgrounds, default_background, same_on_all]
    active_outputs,       \* Vec<WlOutput>
    gpu_renderer,         \* Option<GpuRenderer>: TRUE when Some
    power_monitor,        \* Option<PowerMonitorHandle>: TRUE when Some
    power_saving_config,  \* PowerSavingConfig
    exit,                 \* bool
    process_env,          \* the process environment and the handle's EnvGuard
    call,                 \* a call of a pure function: [pc, fn, args, result]
    event_loop,           \* the dispatch loop and its stop channel: [stop_rx, msgs, sender, closed, pc]
    globals,              \* what was bound at startup: [fractional_scale_manager, compositor_version]
    \* the configuration store (glowberry_config::Context)
    store,                \* [context, backgrounds, default_background, same_on_all, power, writes]
    \* the power monitor thread and its watch cell (upower.rs)
    power_state,          \* the value of the watch channel
    monitor,              \* [upower, pc]: is the service there, and where the thread is
    \* the environment
    now,                  \* Instant::now(), in ticks
    next_surface,         \* id of the next wl_surface the compositor hands out
    effects               \* the protocol and GPU requests the last handler issued

vars ==
    <<wallpapers, config, active_outputs, gpu_renderer, power_monitor, power_saving_config,
      exit, process_env, call, event_loop, globals, store, power_state, monitor, now, next_surface, effects>>

engine_vars ==
    <<wallpapers, config, active_outputs, gpu_renderer, power_monitor, power_saving_config,
      exit, process_env, call, event_loop, globals, next_surface, effects>>

\* What a handler did besides changing the engine's state: requests on the
\* wl_surface (frame, commit) and on the GPU surface (get_current_texture,
\* render, present, configure). dropped tells what kind of layer the handler
\* dropped ("none", "unconfigured", "static", "shader"); after_pause tells
\* that the handler before this one was a frame callback that was paused.
\* surface_created tells that the handler created a GPU surface, and
\* acquisitions counts its calls of get_current_texture.
Effects(handler) ==
    [handler |-> handler, paused |-> FALSE, acquired |-> FALSE,
     rendered |-> FALSE, presented |-> FALSE, configured |-> FALSE,
     frame_requested |-> FALSE, committed |-> FALSE,
     dropped |-> "none", after_pause |-> FALSE, surface_created |-> FALSE,
     acquisitions |-> 0]

\* The kind of a layer, for Effects.dropped.
layer_kind(layer) ==
    IF IsSome(layer.gpu_state) THEN "shader"
    ELSE IF IsSome(layer.pool) THEN "static"
    ELSE "unconfigured"

\* ------------------------------------------------------- wallpapers, layers

\* Wallpaper::new: no layers yet, and no image found in the source.
Wallpaper_new(entry) == [entry |-> entry, layers |-> <<>>, image_queue |-> <<>>]

\* Wallpaper::is_shader.
is_shader(wallpaper) == wallpaper.entry.source.kind = "Shader"

\* Indices i of seq with Test(seq[i]), in order.
Positions(seq, Test(_)) ==
    SelectSeq([i \in 1..Len(seq) |-> i], LAMBDA i : Test(seq[i]))

\* Iterator::position / Iterator::find: the first index, 0 when there is none.
Position(seq, Test(_)) ==
    LET found == Positions(seq, Test) IN IF found = <<>> THEN 0 ELSE found[1]

\* Vec::retain.
Retain(seq, Keep(_)) == SelectSeq(seq, Keep)

\* Vec::remove(index).
RemoveAt(seq, index) == [i \in 1..(Len(seq) - 1) |-> IF i < index THEN seq[i] ELSE seq[i + 1]]

\* The layers of all wallpapers, as a set.
AllLayers ==
    UNION {{wallpapers[i].layers[j] : j \in 1..Len(wallpapers[i].layers)} : i \in 1..Len(wallpapers)}

\* CosmicBg::new_layer: a new surface with its layer surface and viewport.
\* The last two fields are the state of the surface's protocol objects: the
\* destination last set on its viewport and its frame callbacks not yet
\* delivered.
new_layer(output, surface) ==
    [layer |-> surface,
     wl_output |-> output,
     size |-> None,
     fractional_scale |->
        IF globals.fractional_scale_manager THEN None
        ELSE IF globals.compositor_version < 6
             THEN Some(output_info(output).scale_factor * 120)
             ELSE None,
     needs_redraw |-> FALSE,
     pool |-> None,
     gpu_state |-> None,
     viewport_destination |-> None,
     frame_callbacks |-> 0]

\* slice::sort_by on the entries' output: a stable insertion sort.
RECURSIVE sort_by_output(_)
sort_by_output(entries) ==
    IF entries = <<>> THEN <<>>
    ELSE LET sorted == sort_by_output(SubSeq(entries, 1, Len(entries) - 1))
             last == entries[Len(entries)]
             before == SelectSeq(sorted, LAMBDA e : NameKey(e.output) <= NameKey(last.output))
             after == SelectSeq(sorted, LAMBDA e : NameKey(e.output) > NameKey(last.output))
         IN before \o <<last>> \o after

\* The wallpaper list run_with_stop builds at startup: one per entry, sorted,
\* the default ("all") wallpaper last.
initial_wallpapers(cfg) ==
    [i \in 1..Len(cfg.backgrounds) |-> Wallpaper_new(sort_by_output(cfg.backgrounds)[i])]
        \o <<Wallpaper_new(cfg.default_background)>>

\* ------------------------------------------------------- output handlers

\* The predicate of new_output's position(): may wallpaper w take output o?
new_output_accepts(w, o) ==
    IF w.entry.output = "all"
    THEN ~\E j \in 1..Len(w.layers) : w.layers[j].wl_output = o
    ELSE /\ Some(w.entry.output) = output_info(o).name
         /\ ~\E j \in 1..Len(w.layers) : w.layers[j].wl_output = o

\* OutputHandler::new_output.
new_output(wl_output) ==
    /\ ~\E i \in 1..Len(active_outputs) : active_outputs[i] = wl_output
    /\ next_surface <= MaxSurfaces
    /\ active_outputs' = Append(active_outputs, wl_output)
    /\ LET pos == Position(wallpapers, LAMBDA w : new_output_accepts(w, wl_output)) IN
       IF pos # 0
       THEN /\ wallpapers' = [wallpapers EXCEPT ![pos].layers =
                                 Append(@, new_layer(wl_output, next_surface))]
            /\ next_surface' = next_surface + 1
            /\ effects' = [Effects("new_output") EXCEPT !.committed = TRUE]
       ELSE /\ UNCHANGED <<wallpapers, next_surface>>
            /\ effects' = Effects("new_output")
    /\ UNCHANGED <<config, gpu_renderer, power_monitor, power_saving_config, exit, process_env, call, event_loop, globals,
                   store, power_state, monitor, now>>

\* A find() that looks only at the wallpapers named after the output and
\* passes over the "all" wallpaper.
output_destroyed_finds_named_only(w, output) ==
    Some(w.entry.output) = output_info(output).name

\* The predicate of output_destroyed's find(): the wallpaper the handler
\* takes to be the output's.
output_destroyed_finds(w, output) ==
    IF w.entry.output = "all" THEN TRUE
    ELSE Some(w.entry.output) = output_info(output).name

\* OutputHandler::output_destroyed.
output_destroyed(output) ==
    /\ \E i \in 1..Len(active_outputs) : active_outputs[i] = output
    /\ active_outputs' = Retain(active_outputs, LAMBDA o : o # output)
    /\ LET w == Position(wallpapers, LAMBDA x : output_destroyed_finds(x, output))
           layer_position ==
               IF w = 0 THEN 0
               ELSE Position(wallpapers[w].layers, LAMBDA l : l.wl_output = output)
       IN IF layer_position # 0
          THEN /\ wallpapers' = [wallpapers EXCEPT ![w].layers = RemoveAt(@, layer_position)]
               /\ effects' = [Effects("output_destroyed") EXCEPT
                                 !.dropped = layer_kind(wallpapers[w].layers[layer_position])]
          ELSE /\ UNCHANGED wallpapers
               /\ effects' = Effects("output_destroyed")
    /\ UNCHANGED <<config, gpu_renderer, power_monitor, power_saving_config, exit, process_env, call, event_loop, globals,
                   store, power_state, monitor, now, next_surface>>

\* LayerShellHandler::closed.
closed(dropped_layer) ==
    /\ \E l \in AllLayers : l.layer = dropped_layer
    /\ wallpapers' = [i \in 1..Len(wallpapers) |->
                        [wallpapers[i] EXCEPT !.layers =
                            Retain(@, LAMBDA l : l.layer # dropped_layer)]]
    /\ effects' = [Effects("closed") EXCEPT
                      !.dropped = layer_kind(CHOOSE l \in AllLayers : l.layer = dropped_layer)]
    /\ UNCHANGED <<config, active_outputs, gpu_renderer, power_monitor, power_saving_config,
                   exit, process_env, call, event_loop, globals, store, power_state, monitor, now, next_surface>>

\* ------------------------------------------------- shader layer surfaces

\* A variant that sets the viewport's destination to the physical size.
update_shader_layer_surface_physical_viewport(layer) ==
    IF IsNone(layer.gpu_state) THEN layer
    ELSE LET physical == shader_layer_physical_size(layer)
             gpu_state == Unwrap(layer.gpu_state)
         IN [layer EXCEPT
                !.gpu_state = Some([gpu_state EXCEPT
                    !.surface_config = physical,
                    !.canvas = update_resolution(@, physical[1], physical[2])]),
                !.viewport_destination = Some(physical),
                !.frame_callbacks = @ + 1]

\* A variant that starts the canvas' clocks again.
update_shader_layer_surface_restarts_canvas(layer) ==
    IF IsNone(layer.gpu_state) THEN layer
    ELSE LET physical == shader_layer_physical_size(layer)
             gpu_state == Unwrap(layer.gpu_state)
         IN [layer EXCEPT
                !.gpu_state = Some([gpu_state EXCEPT
                    !.surface_config = physical,
                    !.canvas = update_resolution(
                        [@ EXCEPT !.start_time = now, !.last_frame = now],
                        physical[1], physical[2])]),
                !.viewport_destination = IF IsSome(layer.size) THEN layer.size ELSE @,
                !.frame_callbacks = @ + 1]

\* CosmicBg::update_shader_layer_surface, on a layer (gpu is Some at every
\* call): the layer afterwards.
update_shader_layer_surface(layer) ==
    IF IsNone(layer.gpu_state) THEN layer
    ELSE LET physical == shader_layer_physical_size(layer)
             gpu_state == Unwrap(layer.gpu_state)
         IN [layer EXCEPT
                !.gpu_state = Some([gpu_state EXCEPT
                    !.surface_config = physical,
                    !.canvas = update_resolution(@, physical[1], physical[2])]),
                !.viewport_destination = IF IsSome(layer.size) THEN layer.size ELSE @,
                !.frame_callbacks = @ + 1]

\* A variant that presents a texture it did not acquire in this handler.
update_shader_layer_effects_presents_held(handler, layer) ==
    IF IsNone(layer.gpu_state) THEN Effects(handler)
    ELSE [Effects(handler) EXCEPT
             !.configured = TRUE, !.presented = TRUE,
             !.frame_requested = TRUE, !.committed = TRUE]

\* The requests update_shader_layer_surface issues on that layer.
update_shader_layer_effects(handler, layer) ==
    IF IsNone(layer.gpu_state) THEN Effects(handler)
    ELSE [Effects(handler) EXCEPT
             !.configured = TRUE, !.frame_requested = TRUE, !.committed = TRUE]

\* The dimensions init_gpu_layer_internal configures the new surface with.
init_gpu_layer_dimensions(layer) ==
    IF IsSome(output_info(layer.wl_output).mode)
    THEN Unwrap(output_info(layer.wl_output).mode)
    ELSE LET size == UnwrapOr(layer.size, <<1920, 1080>>)
             scale == UnwrapOr(layer.fractional_scale, 120)
         IN <<(size[1] * scale) \div 120, (size[2] * scale) \div 120>>

\* A variant that attaches GPU state although the canvas was not built.
init_gpu_layer_internal_attaches_anyway(layer, shader_source, built, acquired) ==
    LET physical == init_gpu_layer_dimensions(layer)
        canvas == update_resolution(FragmentCanvas_new(shader_source, now),
                                    physical[1], physical[2])
    IN [layer EXCEPT
           !.gpu_state = Some([surface_config |-> physical,
                               canvas |-> IF built /\ acquired
                                          THEN mark_frame_rendered(canvas, now)
                                          ELSE canvas]),
           !.viewport_destination = IF IsSome(layer.size) THEN layer.size ELSE @,
           !.frame_callbacks = IF built THEN @ + 1 ELSE @]

\* CosmicBg::init_gpu_layer_internal, on a layer: the layer afterwards.
\* built: FragmentCanvas::new returned Ok; acquired: get_current_texture
\* returned Ok for the first frame.
init_gpu_layer_internal(layer, shader_source, built, acquired) ==
    IF ~built THEN layer
    ELSE LET physical == init_gpu_layer_dimensions(layer)
             canvas == update_resolution(FragmentCanvas_new(shader_source, now),
                                         physical[1], physical[2])
         IN [layer EXCEPT
                !.gpu_state = Some([surface_config |-> physical,
                                    canvas |-> IF acquired THEN mark_frame_rendered(canvas, now)
                                               ELSE canvas]),
                !.viewport_destination = IF IsSome(layer.size) THEN layer.size ELSE @,
                !.frame_callbacks = @ + 1]

\* A variant that requests a frame callback and commits although the canvas
\* was not built.
init_gpu_layer_effects_rearm_on_failure(layer, built, acquired) ==
    [Effects("configure") EXCEPT
        !.surface_created = TRUE, !.configured = TRUE, !.acquired = built,
        !.acquisitions = IF built THEN 1 ELSE 0, !.rendered = built /\ acquired,
        !.presented = built /\ acquired, !.frame_requested = TRUE, !.committed = TRUE]

\* The requests init_gpu_layer_internal issues.
init_gpu_layer_effects(layer, built, acquired) ==
    IF ~built THEN [Effects("configure") EXCEPT !.surface_created = TRUE, !.configured = TRUE]
    ELSE [Effects("configure") EXCEPT
             !.surface_created = TRUE, !.configured = TRUE, !.acquired = TRUE,
             !.acquisitions = 1, !.rendered = acquired,
             !.presented = acquired, !.frame_requested = TRUE, !.committed = TRUE]

\* Wallpaper::draw for a static wallpaper: every layer that needs a redraw
\* and has a size and a pool gets a buffer attached.
Wallpaper_draw(wallpaper) ==
    [wallpaper EXCEPT !.layers =
        [j \in 1..Len(@) |->
            IF @[j].needs_redraw /\ IsSome(@[j].size) /\ IsSome(@[j].pool)
            THEN [@[j] EXCEPT !.needs_redraw = FALSE]
            ELSE @[j]]]

\* The place <<wallpaper index, layer index>> of the first layer with this
\* layer surface, <<0, 0>> when no wallpaper has it.
find_layer(surface) ==
    LET wp == Position(wallpapers, LAMBDA w : \E j \in 1..Len(w.layers) : w.layers[j].layer = surface)
    IN IF wp = 0 THEN <<0, 0>>
       ELSE <<wp, Position(wallpapers[wp].layers, LAMBDA l : l.layer = surface)>>

\* LayerShellHandler::configure. ok: the allocation the handler needs
\* succeeded (FragmentCanvas::new, or the SlotPool); acquired: the first
\* frame's surface texture was acquired.
configure(layer, new_size, ok, acquired) ==
    LET at == find_layer(layer)
        wp_idx == at[1]
        layer_idx == at[2]
    IN /\ wp_idx # 0
       /\ wallpapers[wp_idx].layers[layer_idx].frame_callbacks < MaxCallbacks
       /\ LET w_layer == [wallpapers[wp_idx].layers[layer_idx] EXCEPT
                             !.size = Some(new_size), !.needs_redraw = TRUE]
          IN IF is_shader(wallpapers[wp_idx])
             THEN IF IsNone(w_layer.gpu_state)
                  THEN /\ gpu_renderer' = TRUE
                       /\ wallpapers' = [wallpapers EXCEPT ![wp_idx].layers[layer_idx] =
                              init_gpu_layer_internal(w_layer,
                                  wallpapers[wp_idx].entry.source, ok, acquired)]
                       /\ effects' = init_gpu_layer_effects(w_layer, ok, acquired)
                  ELSE /\ UNCHANGED gpu_renderer
                       /\ wallpapers' = [wallpapers EXCEPT ![wp_idx].layers[layer_idx] =
                              IF gpu_renderer THEN update_shader_layer_surface(w_layer)
                              ELSE w_layer]
                       /\ effects' = IF gpu_renderer
                                     THEN update_shader_layer_effects("configure", w_layer)
                                     ELSE Effects("configure")
             ELSE /\ UNCHANGED gpu_renderer
                  /\ wallpapers' =
                        IF ok
                        THEN [wallpapers EXCEPT ![wp_idx] = Wallpaper_draw(
                                 [@ EXCEPT !.layers[layer_idx] =
                                     [w_layer EXCEPT !.pool = Some(new_size[1] * new_size[2] * 4)]])]
                        ELSE [wallpapers EXCEPT ![wp_idx].layers[layer_idx] = w_layer]
                  /\ effects' = [Effects("configure") EXCEPT !.committed = ok]
       /\ UNCHANGED <<config, active_outputs, power_monitor, power_saving_config, exit, process_env, call, event_loop,
                      globals, store, power_state, monitor, now, next_surface>>

\* ------------------------------------------------------------ scale events

\* The tail shared by scale_factor_changed, update_output and the
\* PreferredScale event, for the layer at place at: the layer takes the new
\* fractional scale; a shader layer has its surface updated when there is a
\* GPU renderer, a static wallpaper is drawn.
apply_scale(handler, at, fractional_scale) ==
    LET layer == [wallpapers[at[1]].layers[at[2]] EXCEPT
                     !.fractional_scale = Some(fractional_scale)]
    IN /\ wallpapers[at[1]].layers[at[2]].frame_callbacks < MaxCallbacks
       /\ IF is_shader(wallpapers[at[1]])
          THEN /\ wallpapers' = [wallpapers EXCEPT ![at[1]].layers[at[2]] =
                      IF gpu_renderer THEN update_shader_layer_surface(layer) ELSE layer]
               /\ effects' = IF gpu_renderer THEN update_shader_layer_effects(handler, layer)
                             ELSE Effects(handler)
          ELSE /\ wallpapers' = [wallpapers EXCEPT ![at[1]] =
                      Wallpaper_draw([@ EXCEPT !.layers[at[2]] = layer])]
               /\ effects' = [Effects(handler) EXCEPT
                                 !.committed = layer.needs_redraw /\ IsSome(layer.size)
                                               /\ IsSome(layer.pool)]
       /\ UNCHANGED <<config, active_outputs, gpu_renderer, power_monitor, power_saving_config,
                      exit, process_env, call, event_loop, globals, store, power_state, monitor, now, next_surface>>

\* The handler found no layer, or ignores the event.
ignore_event(handler) ==
    /\ effects' = Effects(handler)
    /\ UNCHANGED <<wallpapers, config, active_outputs, gpu_renderer, power_monitor,
                   power_saving_config, exit, process_env, call, event_loop, globals, store, power_state,
                   monitor, now, next_surface>>

\* A handler that takes the integer factor although the manager is bound.
scale_factor_changed_with_manager(surface, new_factor) ==
    IF find_layer(surface)[1] # 0
    THEN apply_scale("scale_factor_changed", find_layer(surface), new_factor * 120)
    ELSE ignore_event("scale_factor_changed")

\* CompositorHandler::scale_factor_changed.
scale_factor_changed(surface, new_factor) ==
    IF ~globals.fractional_scale_manager /\ find_layer(surface)[1] # 0
    THEN apply_scale("scale_factor_changed", find_layer(surface), new_factor * 120)
    ELSE ignore_event("scale_factor_changed")

\* The place of the first layer on this output, <<0, 0>> when there is none.
find_layer_on(output) ==
    LET wp == Position(wallpapers, LAMBDA w : \E j \in 1..Len(w.layers) : w.layers[j].wl_output = output)
    IN IF wp = 0 THEN <<0, 0>>
       ELSE <<wp, Position(wallpapers[wp].layers, LAMBDA l : l.wl_output = output)>>

\* OutputHandler::update_output.
update_output(output) ==
    /\ \E i \in 1..Len(active_outputs) : active_outputs[i] = output
    /\ IF /\ ~globals.fractional_scale_manager
          /\ globals.compositor_version < 6
          /\ find_layer_on(output)[1] # 0
       THEN apply_scale("update_output", find_layer_on(output),
                        output_info(output).scale_factor * 120)
       ELSE ignore_event("update_output")

\* Dispatch<WpFractionalScaleV1>: the PreferredScale event of a surface's
\* fractional-scale object (there is one only when the manager was bound).
PreferredScale(surface, scale) ==
    /\ globals.fractional_scale_manager
    /\ IF find_layer(surface)[1] # 0
       THEN apply_scale("PreferredScale", find_layer(surface), scale)
       ELSE ignore_event("PreferredScale")

\* ------------------------------------------------------ image watcher

\* VecDeque::contains, and Vec::contains for the paths of an event.
contains(seq, p) == \E i \in 1..Len(seq) : seq[i] = p

\* The Create / rename-to arm, for one wallpaper's queue: the loop over the
\* event's paths from the k-th on, then the retain that follows the loop.
RECURSIVE push_unknown(_, _, _)
push_unknown(image_queue, paths, k) ==
    IF k > Len(paths) THEN image_queue
    ELSE push_unknown(IF contains(image_queue, paths[k]) THEN image_queue
                      ELSE <<paths[k]>> \o image_queue,
                      paths, k + 1)

\* The image queue of a wallpaper of this source after an event.
queue_after(image_queue, kind, paths) ==
    CASE kind \in {"Create", "RenameTo"} ->
            Retain(push_unknown(image_queue, paths, 1), LAMBDA p : ~contains(paths, p))
      [] kind \in {"Remove", "RenameFrom"} ->
            Retain(image_queue, LAMBDA p : ~contains(paths, p))
      [] OTHER -> image_queue

\* The img_source callback of run_with_stop: a file-system event of the
\* directory of the entry named source.
img_source_event(source, kind, paths) ==
    /\ wallpapers' = [i \in 1..Len(wallpapers) |->
                         IF wallpapers[i].entry.output = source
                         THEN [wallpapers[i] EXCEPT
                                  !.image_queue = queue_after(@, kind, paths)]
                         ELSE wallpapers[i]]
    /\ effects' = Effects("img_source")
    /\ UNCHANGED <<config, active_outputs, gpu_renderer, power_monitor, power_saving_config,
                   exit, process_env, call, event_loop, globals, store, power_state, monitor, now,
                   next_surface>>

\* ---------------------------------------------------------- frame callback

\* Outcomes of Surface::get_current_texture.
Acquisitions == {"Ok", "Timeout", "Lost", "Outdated", "OutOfMemory", "Other"}

\* The Option of the engine's power monitor handle, as should_pause_animation
\* reads it: the current value of the watch cell when the handle is there.
power_monitor_current == IF power_monitor THEN Some(power_state) ELSE None

\* A frame body that counts a lost or outdated frame as rendered.
frame_gpu_state_lost_marks_rendered(gpu_state, should_pause, acquisition) ==
    IF should_pause \/ ~should_render(gpu_state.canvas, now) \/ ~gpu_renderer THEN gpu_state
    ELSE IF acquisition \in {"Ok", "Lost", "Outdated"}
         THEN [gpu_state EXCEPT !.canvas = mark_frame_rendered(
                  update_resolution(@, gpu_state.surface_config[1], gpu_state.surface_config[2]),
                  now)]
         ELSE gpu_state

\* The body of CompositorHandler::frame for a layer that has GPU state: the
\* GpuLayerState afterwards. acquisition is what get_current_texture returns
\* if it is called.
frame_gpu_state(gpu_state, should_pause, acquisition) ==
    IF should_pause \/ ~should_render(gpu_state.canvas, now) \/ ~gpu_renderer THEN gpu_state
    ELSE CASE acquisition = "Ok" ->
                [gpu_state EXCEPT !.canvas = mark_frame_rendered(
                    update_resolution(@, gpu_state.surface_config[1], gpu_state.surface_config[2]),
                    now)]
           [] acquisition \in {"Lost", "Outdated"} ->
                [gpu_state EXCEPT !.canvas =
                    update_resolution(@, gpu_state.surface_config[1], gpu_state.surface_config[2])]
           [] OTHER -> gpu_state

\* A frame body that asks for the next frame callback only when it is not
\* paused.
frame_effects_no_rearm_when_paused(gpu_state, should_pause, acquisition) ==
    LET tried == ~should_pause /\ should_render(gpu_state.canvas, now) /\ gpu_renderer IN
    [Effects("frame") EXCEPT
        !.paused = should_pause,
        !.acquired = tried,
        !.acquisitions = IF tried THEN 1 ELSE 0,
        !.rendered = tried /\ acquisition = "Ok",
        !.presented = tried /\ acquisition = "Ok",
        !.configured = tried /\ acquisition \in {"Lost", "Outdated"},
        !.frame_requested = ~should_pause,
        !.committed = ~should_pause]

\* A frame body that asks for the texture a second time after a timeout.
frame_effects_retries_after_timeout(gpu_state, should_pause, acquisition) ==
    LET tried == ~should_pause /\ should_render(gpu_state.canvas, now) /\ gpu_renderer IN
    [Effects("frame") EXCEPT
        !.paused = should_pause,
        !.acquired = tried,
        !.acquisitions = IF tried THEN (IF acquisition = "Timeout" THEN 2 ELSE 1) ELSE 0,
        !.rendered = tried /\ acquisition = "Ok",
        !.presented = tried /\ acquisition = "Ok",
        !.configured = tried /\ acquisition \in {"Lost", "Outdated"},
        !.frame_requested = TRUE,
        !.committed = TRUE]

\* The requests that body issues.
frame_effects(gpu_state, should_pause, acquisition) ==
    LET tried == ~should_pause /\ should_render(gpu_state.canvas, now) /\ gpu_renderer IN
    [Effects("frame") EXCEPT
        !.paused = should_pause,
        !.acquired = tried,
        !.acquisitions = IF tried THEN 1 ELSE 0,
        !.rendered = tried /\ acquisition = "Ok",
        !.presented = tried /\ acquisition = "Ok",
        !.configured = tried /\ acquisition \in {"Lost", "Outdated"},
        !.frame_requested = TRUE,
        !.committed = TRUE]

\* CompositorHandler::frame: the compositor delivers one of the surface's
\* outstanding frame callbacks.
frame(surface, acquisition) ==
    LET at == find_layer(surface)
        should_pause == should_pause_animation(power_monitor_current, power_saving_config)
    IN /\ at[1] # 0
       /\ wallpapers[at[1]].layers[at[2]].frame_callbacks > 0
       /\ LET layer == wallpapers[at[1]].layers[at[2]]
              requests == IF IsSome(layer.gpu_state)
                          THEN frame_effects(Unwrap(layer.gpu_state),
                                             should_pause, acquisition)
                          ELSE Effects("frame")
          IN /\ wallpapers' = [wallpapers EXCEPT ![at[1]].layers[at[2]] =
                    [layer EXCEPT
                        !.gpu_state =
                            IF IsSome(layer.gpu_state)
                            THEN Some(frame_gpu_state(Unwrap(layer.gpu_state),
                                                      should_pause, acquisition))
                            ELSE None,
                        !.frame_callbacks =
                            (@ - 1) + (IF requests.frame_requested THEN 1 ELSE 0)]]
             /\ effects' = [requests EXCEPT
                               !.after_pause = effects.handler = "frame" /\ effects.paused]
       /\ UNCHANGED <<config, active_outputs, gpu_renderer, power_monitor, power_saving_config,
                      exit, process_env, call, event_loop, globals, store, power_state, monitor, now, next_surface>>

\* ------------------------------------------------- configuration changes

\* Config::default(): no per-output entries, a static default background.
Config_default ==
    [backgrounds |-> <<>>, default_background |-> Entry("all", PathSource),
     same_on_all |-> TRUE]

\* Config::load: the snapshot of the store.
Config_load(context) ==
    [backgrounds |-> context.backgrounds,
     default_background |-> context.default_background,
     same_on_all |-> context.same_on_all]

\* Config::load_backgrounds: the per-output entries are read again.
load_backgrounds(cfg, context) == [cfg EXCEPT !.backgrounds = context.backgrounds]

\* Context::entry("output.<name>"): the position of the store's entry for the
\* name, 0 for Err.
Context_entry(context, name) == Position(context.backgrounds, LAMBDA e : e.output = name)

\* Config::entry_mut(name): the position of the in-memory entry, 0 for None.
entry_mut(cfg, name) == Position(cfg.backgrounds, LAMBDA e : e.output = name)

\* An iteration whose output.<name> arm asks for a rebuild whether or not
\* the entry was found.
apply_key_output_always_rebuilds(st, key) ==
    CASE key = <<"backgrounds">> ->
            [st EXCEPT !.config = load_backgrounds(@, store), !.changes_applied = TRUE]
      [] key = <<"default_background">> ->
            IF st.config.default_background # store.default_background
            THEN [st EXCEPT !.config.default_background = store.default_background,
                            !.changes_applied = TRUE]
            ELSE st
      [] key = <<"same_on_all">> ->
            [st EXCEPT
                !.config = IF store.same_on_all
                           THEN [@ EXCEPT !.same_on_all = TRUE]
                           ELSE load_backgrounds([@ EXCEPT !.same_on_all = FALSE], store),
                !.changes_applied = TRUE]
      [] key[1] = "power" ->
            [st EXCEPT !.power_saving_config = PowerSavingConfig_load(store.power)]
      [] key[1] = "output" ->
            IF Context_entry(store, key[2]) # 0 /\ entry_mut(st.config, key[2]) # 0
            THEN [st EXCEPT
                    !.config.backgrounds[entry_mut(st.config, key[2])] =
                        store.backgrounds[Context_entry(store, key[2])],
                    !.changes_applied = TRUE]
            ELSE [st EXCEPT !.changes_applied = TRUE]
      [] OTHER -> st

\* One iteration of the config watch handler's loop over the changed keys.
\* st is [config, power_saving_config, changes_applied].
\* The same_on_all arm also clears config.outputs, a set the engine reads
\* nowhere (it is only logged); config.backgrounds, which apply_backgrounds
\* reads, is loaded again only when same_on_all is turned off.
apply_key(st, key) ==
    CASE key = <<"backgrounds">> ->
            [st EXCEPT !.config = load_backgrounds(@, store), !.changes_applied = TRUE]
      [] key = <<"default_background">> ->
            IF st.config.default_background # store.default_background
            THEN [st EXCEPT !.config.default_background = store.default_background,
                            !.changes_applied = TRUE]
            ELSE st
      [] key = <<"same_on_all">> ->
            [st EXCEPT
                !.config = IF store.same_on_all
                           THEN [@ EXCEPT !.same_on_all = TRUE]
                           ELSE load_backgrounds([@ EXCEPT !.same_on_all = FALSE], store),
                !.changes_applied = TRUE]
      [] key[1] = "power" ->
            [st EXCEPT !.power_saving_config = PowerSavingConfig_load(store.power)]
      [] key[1] = "output" ->
            IF Context_entry(store, key[2]) # 0 /\ entry_mut(st.config, key[2]) # 0
            THEN [st EXCEPT
                    !.config.backgrounds[entry_mut(st.config, key[2])] =
                        store.backgrounds[Context_entry(store, key[2])],
                    !.changes_applied = TRUE]
            ELSE st
      [] OTHER -> st

\* The loop over the keys of one change batch.
RECURSIVE apply_keys(_, _)
apply_keys(st, keys) ==
    IF keys = <<>> THEN st ELSE apply_keys(apply_key(st, Head(keys)), Tail(keys))

\* The entry apply_backgrounds gives an output: the position, in the sorted
\* entries, of the first one named after the output, 0 when there is none.
background_of(backgrounds, output) ==
    Position(backgrounds, LAMBDA b : b.output = UnwrapOr(output_info(output).name, ""))

\* CosmicBg::apply_backgrounds: the wallpaper list rebuilt from cfg, every
\* active output given a new layer (surfaces first_surface, first_surface+1, ...).
apply_backgrounds(cfg, first_surface) ==
    LET backgrounds == sort_by_output(cfg.backgrounds)
        idx == [i \in 1..Len(active_outputs) |-> i]
        named == SelectSeq(idx, LAMBDA i : background_of(backgrounds, active_outputs[i]) # 0)
        others == SelectSeq(idx, LAMBDA i : background_of(backgrounds, active_outputs[i]) = 0)
        layer(i) == new_layer(active_outputs[i], first_surface + i - 1)
    IN [k \in 1..Len(named) |->
            [entry |-> backgrounds[background_of(backgrounds, active_outputs[named[k]])],
             layers |-> <<layer(named[k])>>,
             image_queue |-> <<>>]]
       \o <<[entry |-> cfg.default_background,
             layers |-> [k \in 1..Len(others) |-> layer(others[k])],
             image_queue |-> <<>>]>>

\* A handler that rebuilds the wallpapers after every batch.
config_changed_always_rebuilds(keys) ==
    LET st == apply_keys([config |-> config, power_saving_config |-> power_saving_config,
                          changes_applied |-> FALSE], keys)
    IN /\ store.context
       /\ config' = st.config
       /\ power_saving_config' = st.power_saving_config
       /\ next_surface + Len(active_outputs) - 1 <= MaxSurfaces
       /\ wallpapers' = apply_backgrounds(st.config, next_surface)
       /\ next_surface' = next_surface + Len(active_outputs)
       /\ effects' = [Effects("config_changed") EXCEPT !.committed = active_outputs # <<>>]
       /\ UNCHANGED <<active_outputs, gpu_renderer, power_monitor, exit, process_env, call,
                      event_loop, globals, store, power_state, monitor, now>>

\* The config watch source's handler, for one batch of changed keys.
config_changed(keys) ==
    LET st == apply_keys([config |-> config, power_saving_config |-> power_saving_config,
                          changes_applied |-> FALSE], keys)
    IN /\ store.context
       /\ config' = st.config
       /\ power_saving_config' = st.power_saving_config
       /\ IF st.changes_applied
          THEN /\ next_surface + Len(active_outputs) - 1 <= MaxSurfaces
               /\ wallpapers' = apply_backgrounds(st.config, next_surface)
               /\ next_surface' = next_surface + Len(active_outputs)
          ELSE UNCHANGED <<wallpapers, next_surface>>
       /\ effects' = [Effects("config_changed") EXCEPT
                         !.committed = st.changes_applied /\ active_outputs # <<>>]
       /\ UNCHANGED <<active_outputs, gpu_renderer, power_monitor, exit, process_env, call, event_loop, globals, store,
                      power_state, monitor, now>>

\* The settings application writes one key of the store.
Context_set(key, value) ==
    /\ store.context
    /\ store' =
        CASE key = <<"backgrounds">> -> [store EXCEPT !.backgrounds = value]
          [] key = <<"default_background">> -> [store EXCEPT !.default_background = value]
          [] key = <<"same_on_all">> -> [store EXCEPT !.same_on_all = value]
          [] key[1] = "power" ->
                [store EXCEPT !.power[key[2]] = Some(value), !.power_writes = @ + 1]
    /\ store'.power_writes <= MaxWrites
    /\ store' # store
    /\ UNCHANGED <<engine_vars, power_state, monitor, now>>

\* ------------------------------------------------ power monitor (upower.rs)

\* A start that publishes a state whether or not the service answered.
PowerMonitor_start_publishes_anyway(initial_state) ==
    /\ monitor.pc = "starting"
    /\ power_state' = initial_state
    /\ monitor' = [monitor EXCEPT !.pc = IF monitor.upower THEN "running" ELSE "failed"]
    /\ UNCHANGED <<engine_vars, store, now>>

\* PowerMonitor::start on the monitor thread. Without the service the
\* connection or the proxy fails and nothing is published; with it the
\* initial state read from the bus is published and monitor_loop starts.
PowerMonitor_start(initial_state) ==
    /\ monitor.pc = "starting"
    /\ IF monitor.upower
       THEN /\ power_state' = initial_state
            /\ monitor' = [monitor EXCEPT !.pc = "running"]
       ELSE /\ UNCHANGED power_state
            /\ monitor' = [monitor EXCEPT !.pc = "failed"]
    /\ UNCHANGED <<engine_vars, store, now>>

\* An on_battery arm that publishes a fresh state holding only its value.
on_battery_changed_replaces_state(on_battery) ==
    /\ monitor.pc = "running"
    /\ power_state' = [PowerState_default EXCEPT !.on_battery = on_battery]
    /\ power_state' # power_state
    /\ UNCHANGED <<engine_vars, store, monitor, now>>

\* monitor_loop, the on_battery stream.
on_battery_changed(on_battery) ==
    /\ monitor.pc = "running"
    /\ power_state' = [power_state EXCEPT !.on_battery = on_battery]
    /\ power_state' # power_state
    /\ UNCHANGED <<engine_vars, store, monitor, now>>

\* monitor_loop, the lid_is_closed stream.
lid_is_closed_changed(lid_is_closed) ==
    /\ monitor.pc = "running"
    /\ power_state' = [power_state EXCEPT !.lid_is_closed = lid_is_closed]
    /\ power_state' # power_state
    /\ UNCHANGED <<engine_vars, store, monitor, now>>

\* monitor_loop, the percentage stream of the display device.
percentage_changed(percentage) ==
    /\ monitor.pc = "running"
    /\ power_state' = [power_state EXCEPT !.battery_percentage = Some(percentage)]
    /\ power_state' # power_state
    /\ UNCHANGED <<engine_vars, store, monitor, now>>

\* monitor_loop, the else branch of its select: every signal stream has
\* ended (the service is gone). The loop breaks; nothing is published.
streams_ended ==
    /\ monitor.pc = "running"
    /\ monitor' = [monitor EXCEPT !.pc = "ended"]
    /\ UNCHANGED <<engine_vars, store, power_state, now>>

\* ------------------------------------------------------------------ time

\* Time passes between two events.
Tick ==
    /\ now < MaxTime
    /\ now' = now + 1
    /\ UNCHANGED <<engine_vars, store, power_state, monitor>>

\* ------------------------------------------ user context (user_context.rs)

\* Names and values of environment variables.
EnvNames == {"DISPLAY", "HOME"}
EnvValues == {"first", "second"}

\* Process environments: every name absent (None) or set.
Envs == [EnvNames -> {None, Some("initial"), Some("first")}]

\* UserContext::vars: ordered lists of (name, value) pairs.
UserContexts == UNION {[1..n -> EnvNames \X EnvValues] : n \in 0..MaxVars}

\* std::env::set_var and std::env::remove_var.
set_var(env, key, value) == [env EXCEPT ![key] = Some(value)]
remove_var(env, key) == [env EXCEPT ![key] = None]

\* The loop of UserContext::apply: for each pair, the current value is pushed
\* on previous and the variable is set.
RECURSIVE apply_loop(_, _, _)
apply_loop(user_vars, env, previous) ==
    IF user_vars = <<>> THEN [env |-> env, previous |-> previous]
    ELSE LET key == Head(user_vars)[1]
             value == Head(user_vars)[2]
             current == env[key]
         IN apply_loop(Tail(user_vars), set_var(env, key, value),
                       Append(previous, <<key, current>>))

\* UserContext::apply: the environment afterwards and the guard's previous.
UserContext_apply(user_vars, env) == apply_loop(user_vars, env, <<>>)

\* A drop that restores the saved values in the order they were saved.
RECURSIVE EnvGuard_drop_forward(_, _)
EnvGuard_drop_forward(previous, env) ==
    IF previous = <<>> THEN env
    ELSE LET first == Head(previous) IN
         EnvGuard_drop_forward(Tail(previous),
             IF IsSome(first[2]) THEN set_var(env, first[1], Unwrap(first[2]))
             ELSE remove_var(env, first[1]))

\* impl Drop for EnvGuard: previous.drain(..).rev(), each value restored or
\* the variable removed.
RECURSIVE EnvGuard_drop(_, _)
EnvGuard_drop(previous, env) ==
    IF previous = <<>> THEN env
    ELSE LET last == previous[Len(previous)] IN
         EnvGuard_drop(SubSeq(previous, 1, Len(previous) - 1),
             IF IsSome(last[2]) THEN set_var(env, last[1], Unwrap(last[2]))
             ELSE remove_var(env, last[1]))

\* The process before BackgroundHandle::spawn: its environment (before keeps
\* the environment as it was then) and the user context to apply.
UnspawnedEnv(env, user) ==
    [env |-> env, before |-> env, user |-> user, env_guard |-> None, pc |-> "new"]

\* BackgroundHandle::spawn: the user context is applied, the guard kept.
spawn_env(penv) ==
    LET applied == UserContext_apply(penv.user, penv.env) IN
    [penv EXCEPT !.env = applied.env, !.env_guard = Some(applied.previous),
                 !.pc = "spawned"]

\* BackgroundHandle::spawn.
BackgroundHandle_spawn ==
    /\ process_env.pc = "new"
    /\ process_env' = spawn_env(process_env)
    /\ UNCHANGED <<wallpapers, config, active_outputs, gpu_renderer, power_monitor,
                   power_saving_config, exit, call, event_loop, globals, store, power_state,
                   monitor, now, next_surface, effects>>

\* BackgroundHandle::stop: the engine thread joined, the guard taken and
\* dropped.
BackgroundHandle_stop ==
    /\ process_env.pc = "spawned"
    /\ process_env' = [process_env EXCEPT
                          !.env = EnvGuard_drop(Unwrap(process_env.env_guard), process_env.env),
                          !.env_guard = None,
                          !.pc = "stopped"]
    /\ UNCHANGED <<wallpapers, config, active_outputs, gpu_renderer, power_monitor,
                   power_saving_config, exit, call, event_loop, globals, store, power_state,
                   monitor, now, next_surface, effects>>

\* The process the engine runs in: spawned with a one-variable user context.
SpawnedEnv ==
    spawn_env(UnspawnedEnv([n \in EnvNames |-> None], <<<<"DISPLAY", "first">>>>))

\* --------------------------------------------------------- initial states

\* A test that looks at the default background only.
has_shader_source_default_only(cfg) == cfg.default_background.source.kind = "Shader"

\* Whether any entry of the config is a shader (run_with_stop).
has_shader_source(cfg) ==
    \/ \E i \in 1..Len(cfg.backgrounds) : cfg.backgrounds[i].source.kind = "Shader"
    \/ cfg.default_background.source.kind = "Shader"

\* Lists of at most MaxEntries entries with distinct outputs.
BackgroundLists ==
    {b \in UNION {[1..n -> {Entry(name, src) : name \in EntryNames, src \in Sources}] :
                  n \in 0..MaxEntries} :
        \A i, j \in 1..Len(b) : i # j => b[i].output # b[j].output}

DefaultBackgrounds == {Entry("all", src) : src \in Sources}

\* The store as the engine finds it at startup. context: whether
\* glowberry_config::context() returned Ok.
Stores(contexts, backgrounds, defaults, same_on_alls, powers) ==
    [context : contexts, backgrounds : backgrounds, default_background : defaults,
     same_on_all : same_on_alls, power : powers, power_writes : {0}]

\* BackgroundEngine::run_with_stop up to the dispatch loop, for a store, the
\* globals the compositor offers, whether the second call of
\* glowberry_config::context() (the one for the power-saving config) returned
\* Ok, whether the monitor's runtime was built and whether the power service
\* is there.
InitEngine(stores, all_globals, power_contexts, monitors, upowers) ==
    /\ store \in stores
    /\ globals \in all_globals
    /\ power_monitor \in monitors
    /\ monitor \in IF power_monitor THEN [upower : upowers, pc : {"starting"}]
                    ELSE {[upower |-> FALSE, pc |-> "none"]}
    /\ config = IF store.context THEN Config_load(store) ELSE Config_default
    /\ power_saving_config \in
          {IF ok THEN PowerSavingConfig_load(store.power) ELSE PowerSavingConfig_default :
           ok \in power_contexts}
    /\ gpu_renderer = has_shader_source(config)
    /\ active_outputs = <<>>
    /\ exit = FALSE
    /\ power_state = PowerState_default
    /\ now = 0
    /\ next_surface = 1
    /\ effects = Effects("init")

\* That state when the sources hold no image.
InitWith(stores, all_globals, power_contexts, monitors, upowers) ==
    /\ InitEngine(stores, all_globals, power_contexts, monitors, upowers)
    /\ wallpapers = initial_wallpapers(config)

AllGlobals == [fractional_scale_manager : BOOLEAN, compositor_version : {5, 6}]

Surfaces == 1..MaxSurfaces

\* Sizes a configure event carries.
Sizes == {<<4, 2>>}

\* ------------------------------------- the engine's life cycle: Spec

\* Keys of the change batches: the wallpaper keys, one per-output key and
\* one power-saving key.
Keys ==
    {<<"backgrounds">>, <<"default_background">>, <<"same_on_all">>,
     <<"output", "DP-1">>, <<"power", "pause_on_lid_closed">>}

KeyBatches == UNION {[1..n -> Keys] : n \in 1..MaxKeys}

Init ==
    /\ InitWith(Stores({TRUE}, BackgroundLists, DefaultBackgrounds, {FALSE}, {EmptyPowerStore}),
                {[fractional_scale_manager |-> TRUE, compositor_version |-> 6]},
                {TRUE}, {TRUE}, {TRUE})
    /\ process_env = SpawnedEnv
    /\ event_loop = Dispatching(TRUE)
    /\ call = NoCall

Next ==
    \/ \E o \in Outputs : new_output(o)
    \/ \E o \in Outputs : output_destroyed(o)
    \/ \E s \in Surfaces : closed(s)
    \/ \E s \in Surfaces, size \in Sizes, ok, acquired \in BOOLEAN : configure(s, size, ok, acquired)
    \/ \E s \in Surfaces : frame(s, "Ok")
    \/ \E keys \in KeyBatches : config_changed(keys)
    \/ \E b \in BackgroundLists : Context_set(<<"backgrounds">>, b)
    \/ \E e \in DefaultBackgrounds : Context_set(<<"default_background">>, e)

Spec == Init /\ [][Next]_vars

\* ------------------------------- frames and the power policy: SpecPower

\* One shader wallpaper for every output; the power service, the power-saving
\* keys of the store and the clock vary.
InitPower ==
    /\ InitWith(Stores({TRUE}, {<<>>}, {Entry("all", ShaderSource(30))}, {FALSE}, {EmptyPowerStore}),
                {[fractional_scale_manager |-> TRUE, compositor_version |-> 6]},
                BOOLEAN, BOOLEAN, BOOLEAN)
    /\ process_env = SpawnedEnv
    /\ event_loop = Dispatching(TRUE)
    /\ call = NoCall

\* What the settings application writes in SpecPower: the keys the pause
\* decision reads, set away from their fallbacks.
PowerWrites ==
    {<<"on_battery_action", "Pause">>, <<"on_battery_action", "ReduceTo15Fps">>,
     <<"low_battery_threshold", 10>>, <<"pause_on_lid_closed", FALSE>>}

NextPower ==
    \/ new_output(1)
    \/ \E s \in Surfaces, size \in Sizes, ok, acquired \in BOOLEAN : configure(s, size, ok, acquired)
    \/ \E s \in Surfaces, a \in Acquisitions : frame(s, a)
    \/ \E k \in {"low_battery_threshold", "pause_on_fullscreen"} :
            config_changed(<<<<"power", k>>>>)
    \/ \E w \in PowerWrites : Context_set(<<"power", w[1]>>, w[2])
    \/ \E initial \in PowerStates : PowerMonitor_start(initial)
    \/ \E b \in BOOLEAN : on_battery_changed(b)
    \/ \E b \in BOOLEAN : lid_is_closed_changed(b)
    \/ \E p \in Percentages : percentage_changed(p)
    \/ Tick

SpecPower == InitPower /\ [][NextPower]_vars


\* ------------------------------ the monitor thread's life: SpecMonitor

\* The monitor thread from its start to the end of its signal streams, with
\* one shader layer drawing; the configuration stays as loaded.
NextMonitor ==
    \/ new_output(1)
    \/ \E s \in Surfaces, size \in Sizes, ok, acquired \in BOOLEAN : configure(s, size, ok, acquired)
    \/ \E s \in Surfaces, a \in Acquisitions : frame(s, a)
    \/ \E initial \in PowerStates : PowerMonitor_start(initial)
    \/ \E b \in BOOLEAN : on_battery_changed(b)
    \/ \E b \in BOOLEAN : lid_is_closed_changed(b)
    \/ \E p \in Percentages : percentage_changed(p)
    \/ streams_ended

SpecMonitor == InitPower /\ [][NextMonitor]_vars

\* --------------------------- one output's surface and its scale: SpecSurface

\* Sizes and scales the compositor sends.
SurfaceSizes == {<<4, 2>>, <<5, 3>>}
PreferredScales == {120, 180}
ScaleFactors == {1, 2}

\* A static or a shader wallpaper for every output, under each set of
\* globals; one output is connected at a time.
InitSurface ==
    /\ InitWith(Stores({TRUE}, {<<>>}, DefaultBackgrounds, {FALSE}, {EmptyPowerStore}),
                AllGlobals, {TRUE}, {TRUE}, {TRUE})
    /\ process_env = SpawnedEnv
    /\ event_loop = Dispatching(TRUE)
    /\ call = NoCall

NextSurface ==
    \/ \E o \in Outputs : active_outputs = <<>> /\ new_output(o)
    \/ \E o \in Outputs : output_destroyed(o)
    \/ \E s \in Surfaces, size \in SurfaceSizes, ok, acquired \in BOOLEAN :
            configure(s, size, ok, acquired)
    \/ \E s \in Surfaces : frame(s, "Ok")
    \/ \E s \in Surfaces, f \in ScaleFactors : scale_factor_changed(s, f)
    \/ \E o \in Outputs : update_output(o)
    \/ \E s \in Surfaces, scale \in PreferredScales : PreferredScale(s, scale)

SpecSurface == InitSurface /\ [][NextSurface]_vars

\* ------------------- a shader layer's surface over time: SpecReconfigure

\* A shader wallpaper for every output, under each set of globals; one
\* output is connected, its surface is configured and rescaled while the
\* clock advances.
InitReconfigure ==
    /\ InitWith(Stores({TRUE}, {<<>>}, {Entry("all", ShaderSource(30))}, {FALSE},
                       {EmptyPowerStore}),
                AllGlobals, {TRUE}, {TRUE}, {TRUE})
    /\ process_env = SpawnedEnv
    /\ event_loop = Dispatching(TRUE)
    /\ call = NoCall

NextReconfigure ==
    \/ \E o \in Outputs : active_outputs = <<>> /\ new_output(o)
    \/ \E s \in Surfaces, size \in SurfaceSizes, ok, acquired \in BOOLEAN :
            configure(s, size, ok, acquired)
    \/ \E s \in Surfaces : frame(s, "Ok")
    \/ \E s \in Surfaces, f \in ScaleFactors : scale_factor_changed(s, f)
    \/ \E o \in Outputs : update_output(o)
    \/ \E s \in Surfaces, scale \in PreferredScales : PreferredScale(s, scale)
    \/ Tick

SpecReconfigure == InitReconfigure /\ [][NextReconfigure]_vars

\* ------------------------------- writes of the settings: SpecSettings

\* The change batches of SpecSettings: one or two keys, each same_on_all or
\* one of two power-saving keys.
SettingsKeys ==
    {<<"same_on_all">>, <<"power", "on_battery_action">>, <<"power", "low_battery_threshold">>}

SettingsBatches == UNION {[1..n -> SettingsKeys] : n \in 1..2}

\* Static and shader wallpapers, per output or for all; there is no power
\* monitor.
InitSettings ==
    /\ InitWith(Stores({TRUE}, {<<>>} \cup {<<Entry("DP-1", src)>> : src \in Sources},
                       DefaultBackgrounds, {FALSE}, {EmptyPowerStore}),
                {[fractional_scale_manager |-> TRUE, compositor_version |-> 6]},
                {TRUE}, {FALSE}, {FALSE})
    /\ process_env = SpawnedEnv
    /\ event_loop = Dispatching(TRUE)
    /\ call = NoCall

\* The output DP-1 arrives and is configured; the settings application
\* writes power-saving keys and same_on_all, and the engine is told in
\* batches.
NextSettings ==
    \/ new_output(1)
    \/ \E s \in Surfaces, size \in Sizes, ok \in BOOLEAN : configure(s, size, ok, TRUE)
    \/ \E w \in PowerWrites : Context_set(<<"power", w[1]>>, w[2])
    \/ \E b \in BOOLEAN : Context_set(<<"same_on_all">>, b)
    \/ \E keys \in SettingsBatches : config_changed(keys)

SpecSettings == InitSettings /\ [][NextSettings]_vars

\* ------------------------------------- shader_physical_size alone: SpecSize

\* The arguments shader_physical_size is called with.
LayerSizes == {None} \cup {Some(d) : d \in {<<4, 2>>, <<5, 3>>, <<7, 5>>, <<1920, 1080>>}}
FractionalScales == {None, Some(120), Some(150), Some(180), Some(240)}
OutputModeDims == {None, Some(<<8, 4>>), Some(<<1920, 1080>>)}

\* The engine is idle; only the function is called.
InitSize ==
    /\ InitWith(Stores({TRUE}, {<<>>}, {Entry("all", PathSource)}, {FALSE}, {EmptyPowerStore}),
                {[fractional_scale_manager |-> TRUE, compositor_version |-> 6]},
                {TRUE}, {TRUE}, {TRUE})
    /\ process_env = SpawnedEnv
    /\ event_loop = Dispatching(TRUE)
    /\ call \in {Called("shader_physical_size", <<ls, fs, md>>) :
                    ls \in LayerSizes, fs \in FractionalScales, md \in OutputModeDims}

\* shader_physical_size returns.
call_shader_physical_size ==
    /\ call.pc = "called"
    /\ call.fn = "shader_physical_size"
    /\ call' = Returned(call, shader_physical_size(call.args[1], call.args[2], call.args[3]))
    /\ UNCHANGED <<wallpapers, config, active_outputs, gpu_renderer, power_monitor,
                   power_saving_config, exit, process_env, event_loop, globals, store,
                   power_state,
                   monitor, now, next_surface, effects>>

NextSize == call_shader_physical_size

SpecSize == InitSize /\ [][NextSize]_vars

\* ----------------------------------- FragmentCanvas::new alone: SpecCanvas

\* File names of up to MaxName pieces.
FileNames == UNION {[1..n -> {".", "x", "glsl", "frag", "wgsl"}] : n \in 1..MaxName}

\* ShaderContent: inline code, or a path with its file name and whether the
\* file can be read.
ShaderContents ==
    {[kind |-> "Code", file_name |-> <<>>, readable |-> TRUE]}
    \cup [kind : {"Path"}, file_name : FileNames, readable : BOOLEAN]

\* Every ShaderSource: background_image is None, or Some of whether the
\* image can be opened.
ShaderSources ==
    [shader : ShaderContents,
     background_image : {None, Some(TRUE), Some(FALSE)},
     language : {"Wgsl", "Glsl"}]

\* The engine is idle; only the constructor is called.
InitCanvas ==
    /\ InitWith(Stores({TRUE}, {<<>>}, {Entry("all", PathSource)}, {FALSE}, {EmptyPowerStore}),
                {[fractional_scale_manager |-> TRUE, compositor_version |-> 6]},
                {TRUE}, {TRUE}, {TRUE})
    /\ process_env = SpawnedEnv
    /\ event_loop = Dispatching(TRUE)
    /\ call \in {Called("FragmentCanvas::new", <<source>>) : source \in ShaderSources}

\* FragmentCanvas::new returns.
call_FragmentCanvas_new ==
    /\ call.pc = "called"
    /\ call.fn = "FragmentCanvas::new"
    /\ call' = Returned(call, FragmentCanvas_new_result(call.args[1]))
    /\ UNCHANGED <<wallpapers, config, active_outputs, gpu_renderer, power_monitor,
                   power_saving_config, exit, process_env, event_loop, globals, store,
                   power_state,
                   monitor, now, next_surface, effects>>

NextCanvas == call_FragmentCanvas_new

SpecCanvas == InitCanvas /\ [][NextCanvas]_vars

\* -------------------------------- aligned_bytes_per_row alone: SpecAlign

\* Widths: the small ones, and those around the largest whose row still
\* fits in a u32.
Widths ==
    {u32(n) : n \in 0..MaxWidth}
    \cup {<<16383, 65472>>, <<16383, 65473>>, <<16383, 65535>>, <<16384, 0>>, u32_MAX}

\* The engine is idle; only the function is called, in a build with or
\* without overflow checks.
InitAlign ==
    /\ InitWith(Stores({TRUE}, {<<>>}, {Entry("all", PathSource)}, {FALSE}, {EmptyPowerStore}),
                {[fractional_scale_manager |-> TRUE, compositor_version |-> 6]},
                {TRUE}, {TRUE}, {TRUE})
    /\ process_env = SpawnedEnv
    /\ event_loop = Dispatching(TRUE)
    /\ call \in {Called("aligned_bytes_per_row", <<w, 4, checks>>) :
                    w \in Widths, checks \in BOOLEAN}

\* aligned_bytes_per_row returns, or panics.
call_aligned_bytes_per_row ==
    /\ call.pc = "called"
    /\ call.fn = "aligned_bytes_per_row"
    /\ call' = Returned(call, aligned_bytes_per_row(call.args[1], call.args[2], call.args[3]))
    /\ UNCHANGED <<wallpapers, config, active_outputs, gpu_renderer, power_monitor,
                   power_saving_config, exit, process_env, event_loop, globals, store,
                   power_state,
                   monitor, now, next_surface, effects>>

NextAlign == call_aligned_bytes_per_row

SpecAlign == InitAlign /\ [][NextAlign]_vars

\* --------------------------------- texture_upload_data alone: SpecUpload

\* Images <<width, height>>: widths on both sides of an aligned row (64
\* pixels are 256 bytes) with a few heights, and the image one pixel wide
\* whose padded rows of 256 bytes add up to 2^32 bytes.
UploadWidths == {0, 1, 2, 63, 64, 65, 128}
UploadHeights == {0, 1, 2, 3}
Images == (UploadWidths \X UploadHeights) \cup {<<1, 16777216>>}

\* The engine is idle; only the function is called, with an RGBA slice of
\* width * height * 4 bytes.
InitUpload ==
    /\ InitWith(Stores({TRUE}, {<<>>}, {Entry("all", PathSource)}, {FALSE}, {EmptyPowerStore}),
                {[fractional_scale_manager |-> TRUE, compositor_version |-> 6]},
                {TRUE}, {TRUE}, {TRUE})
    /\ process_env = SpawnedEnv
    /\ event_loop = Dispatching(TRUE)
    /\ call \in {Called("texture_upload_data",
                         <<[len |-> image[1] * image[2] * 4, pattern |-> p],
                           image[1], image[2], checks>>) :
                    image \in Images, p \in {"ones", "ramp"}, checks \in BOOLEAN}

\* texture_upload_data returns, or panics.
call_texture_upload_data ==
    /\ call.pc = "called"
    /\ call.fn = "texture_upload_data"
    /\ call' = Returned(call, texture_upload_data(call.args[1], call.args[2],
                                                  call.args[3], call.args[4]))
    /\ UNCHANGED <<wallpapers, config, active_outputs, gpu_renderer, power_monitor,
                   power_saving_config, exit, process_env, event_loop, globals, store,
                   power_state,
                   monitor, now, next_surface, effects>>

NextUpload == call_texture_upload_data

SpecUpload == InitUpload /\ [][NextUpload]_vars

\* ------------------------------ a canvas' frame-rate override: SpecRate

\* Frame rates (u8) of sources and of overrides.
Rates == {0, 1, 2, 7, 15, 30, 59, 60, 61, 255}

\* The engine is idle; FragmentCanvas::new has built a canvas for a source
\* of some frame rate.
InitRate ==
    /\ InitWith(Stores({TRUE}, {<<>>}, {Entry("all", PathSource)}, {FALSE}, {EmptyPowerStore}),
                {[fractional_scale_manager |-> TRUE, compositor_version |-> 6]},
                {TRUE}, {TRUE}, {TRUE})
    /\ process_env = SpawnedEnv
    /\ event_loop = Dispatching(TRUE)
    /\ call \in {Returned(Called("FragmentCanvas::new", <<rate>>),
                          FragmentCanvas_new(ShaderSource(rate), 0)) : rate \in Rates}

\* set_frame_rate_override is called on that canvas; the arguments kept are
\* the source's rate and the latest override.
call_set_frame_rate_override(frame_rate) ==
    /\ call.pc = "returned"
    /\ call.fn = "FragmentCanvas::new"
    /\ call' = [call EXCEPT
                  !.args = <<call.args[1], frame_rate>>,
                  !.result = Some(set_frame_rate_override(Unwrap(call.result), frame_rate))]
    /\ UNCHANGED <<wallpapers, config, active_outputs, gpu_renderer, power_monitor,
                   power_saving_config, exit, process_env, event_loop, globals, store,
                   power_state, monitor, now, next_surface, effects>>

NextRate ==
    \E frame_rate \in {None} \cup {Some(rate) : rate \in Rates} :
        call_set_frame_rate_override(frame_rate)

SpecRate == InitRate /\ [][NextRate]_vars

\* ------------------------------------------- stopping the engine: SpecStop

\* The match of the stop channel's callback: does this event set exit?
stop_channel_on_msg_only(event) == event = "Msg"

\* The match of the stop channel's callback: does this event set exit?
stop_channel(event) == event \in {"Msg", "Closed"}

\* The stop channel's source delivers its next event to the callback: a
\* message, or Closed once the sender is gone and the messages are read.
stop_event ==
    LET event == IF event_loop.msgs > 0 THEN "Msg" ELSE "Closed" IN
    /\ event_loop.pc = "dispatching"
    /\ event_loop.stop_rx
    /\ event_loop.msgs > 0 \/ (~event_loop.sender /\ ~event_loop.closed)
    /\ exit' = (exit \/ stop_channel(event))
    /\ event_loop' = IF event = "Msg" THEN [event_loop EXCEPT !.msgs = @ - 1]
                     ELSE [event_loop EXCEPT !.closed = TRUE]
    /\ effects' = Effects("stop")
    /\ UNCHANGED <<wallpapers, config, active_outputs, gpu_renderer, power_monitor,
                   power_saving_config, process_env, call, globals, store, power_state,
                   monitor, now, next_surface>>

\* The test after event_loop.dispatch returned Ok: the loop breaks when
\* exit is set, and run_with_stop returns Ok.
loop_break ==
    /\ event_loop.pc = "dispatching"
    /\ exit
    /\ event_loop' = [event_loop EXCEPT !.pc = "ended"]
    /\ UNCHANGED <<wallpapers, config, active_outputs, gpu_renderer, power_monitor,
                   power_saving_config, exit, process_env, call, globals, store, power_state,
                   monitor, now, next_surface, effects>>

\* event_loop.dispatch returns Err (the compositor connection is lost) and
\* `?` returns it from run_with_stop.
dispatch_error ==
    /\ event_loop.pc = "dispatching"
    /\ event_loop' = [event_loop EXCEPT !.pc = "failed"]
    /\ UNCHANGED <<wallpapers, config, active_outputs, gpu_renderer, power_monitor,
                   power_saving_config, exit, process_env, call, globals, store, power_state,
                   monitor, now, next_surface, effects>>

\* BackgroundHandle::stop, its first statement: the stop message is sent.
stop_send ==
    /\ process_env.pc = "spawned"
    /\ event_loop.stop_rx /\ event_loop.sender
    /\ event_loop' = [event_loop EXCEPT !.msgs = 1]
    /\ process_env' = [process_env EXCEPT !.pc = "stopping"]
    /\ UNCHANGED <<wallpapers, config, active_outputs, gpu_renderer, power_monitor,
                   power_saving_config, exit, call, globals, store, power_state, monitor,
                   now, next_surface, effects>>

\* A stop that takes the guard without waiting for the engine thread.
stop_join_without_join ==
    /\ process_env.pc = "stopping"
    /\ process_env' = [process_env EXCEPT
                          !.env = EnvGuard_drop(Unwrap(process_env.env_guard), process_env.env),
                          !.env_guard = None,
                          !.pc = "stopped"]
    /\ UNCHANGED <<wallpapers, config, active_outputs, gpu_renderer, power_monitor,
                   power_saving_config, exit, call, event_loop, globals, store, power_state,
                   monitor, now, next_surface, effects>>

\* BackgroundHandle::stop, the rest: join returns once the engine thread
\* has ended, and the guard is taken and dropped.
stop_join ==
    /\ process_env.pc = "stopping"
    /\ event_loop.pc \in {"ended", "failed"}
    /\ process_env' = [process_env EXCEPT
                          !.env = EnvGuard_drop(Unwrap(process_env.env_guard), process_env.env),
                          !.env_guard = None,
                          !.pc = "stopped"]
    /\ UNCHANGED <<wallpapers, config, active_outputs, gpu_renderer, power_monitor,
                   power_saving_config, exit, call, event_loop, globals, store, power_state,
                   monitor, now, next_surface, effects>>

\* The sender of the stop channel is dropped without a message.
sender_dropped ==
    /\ process_env.pc = "spawned"
    /\ event_loop.stop_rx /\ event_loop.sender
    /\ event_loop' = [event_loop EXCEPT !.sender = FALSE]
    /\ UNCHANGED <<wallpapers, config, active_outputs, gpu_renderer, power_monitor,
                   power_saving_config, exit, process_env, call, globals, store, power_state,
                   monitor, now, next_surface, effects>>

\* The engine with one shader output, started by BackgroundHandle::spawn
\* (with a stop channel) or by BackgroundEngine::run (without one).
InitStop ==
    /\ InitWith(Stores({TRUE}, {<<>>}, {Entry("all", ShaderSource(30))}, {FALSE}, {EmptyPowerStore}),
                {[fractional_scale_manager |-> TRUE, compositor_version |-> 6]},
                {TRUE}, {TRUE}, {TRUE})
    /\ process_env = SpawnedEnv
    /\ call = NoCall
    /\ event_loop \in {Dispatching(TRUE), Dispatching(FALSE)}

\* The handlers run only while the loop dispatches.
NextStop ==
    \/ event_loop.pc = "dispatching" /\ new_output(1)
    \/ \E s \in Surfaces, ok, acquired \in BOOLEAN :
            event_loop.pc = "dispatching" /\ configure(s, <<4, 2>>, ok, acquired)
    \/ \E s \in Surfaces : event_loop.pc = "dispatching" /\ frame(s, "Ok")
    \/ stop_event
    \/ loop_break
    \/ dispatch_error
    \/ stop_send
    \/ stop_join
    \/ sender_dropped

SpecStop == InitStop /\ [][NextStop]_vars

\* The event loop delivers a pending event, the thread goes on to the test
\* after dispatch, and join returns when the thread has ended.
SpecStopLive ==
    SpecStop /\ WF_vars(stop_event) /\ WF_vars(loop_break) /\ WF_vars(stop_join)

\* ------------------------------- the handle's two threads: SpecHandle

\* BackgroundHandle::spawn, its first statement: user.apply() on the calling
\* thread.
spawn_apply ==
    /\ process_env.pc = "new"
    /\ event_loop.pc = "unstarted"
    /\ process_env' = [spawn_env(process_env) EXCEPT !.pc = "applied"]
    /\ UNCHANGED <<wallpapers, config, active_outputs, gpu_renderer, power_monitor,
                   power_saving_config, exit, call, event_loop, globals, store, power_state,
                   monitor, now, next_surface, effects>>

\* BackgroundHandle::spawn, the rest: the stop channel is made, thread::spawn
\* starts run_with_stop(config, Some(stop_rx)) and the handle is built.
spawn_thread ==
    /\ process_env.pc = "applied"
    /\ event_loop.pc = "unstarted"
    /\ event_loop' = Dispatching(TRUE)
    /\ process_env' = [process_env EXCEPT !.pc = "spawned"]
    /\ UNCHANGED <<wallpapers, config, active_outputs, gpu_renderer, power_monitor,
                   power_saving_config, exit, call, globals, store, power_state, monitor,
                   now, next_surface, effects>>

\* The caller of spawn: its environment and the user context it passes. The
\* engine thread does not exist yet.
InitHandle ==
    /\ InitWith(Stores({TRUE}, {<<>>}, {Entry("all", ShaderSource(30))}, {FALSE}, {EmptyPowerStore}),
                {[fractional_scale_manager |-> TRUE, compositor_version |-> 6]},
                {TRUE}, {TRUE}, {TRUE})
    /\ process_env \in {UnspawnedEnv(env, user) :
                            env \in Envs, user \in {u \in UserContexts : Len(u) <= 2}}
    /\ call = NoCall
    /\ event_loop = [Dispatching(TRUE) EXCEPT !.pc = "unstarted"]

\* The calling thread spawns and stops (stop() or the handle's drop, which
\* calls stop()); the engine thread handles events while it dispatches.
NextHandle ==
    \/ spawn_apply
    \/ spawn_thread
    \/ event_loop.pc = "dispatching" /\ new_output(1)
    \/ \E s \in Surfaces :
            event_loop.pc = "dispatching" /\ configure(s, <<4, 2>>, TRUE, TRUE)
    \/ stop_event
    \/ loop_break
    \/ dispatch_error
    \/ stop_send
    \/ stop_join

SpecHandle == InitHandle /\ [][NextHandle]_vars

\* --------------------------------------- the image watcher: SpecWatch

\* Image paths, the paths one event carries, and the queues Wallpaper::new
\* may have filled from a directory.
Paths == {"a.png", "b.png", "c.png"}
EventPaths == UNION {[1..n -> Paths] : n \in 1..2}
Queues ==
    {q \in UNION {[1..n -> Paths] : n \in 0..MaxQueue} :
        \A i, j \in 1..Len(q) : q[i] = q[j] => i = j}
EventKinds == {"Create", "RenameTo", "Remove", "RenameFrom", "Modify"}

\* A wallpaper for DP-1 and the default one, both directories, each with
\* the images found at startup.
InitWatch ==
    /\ InitEngine(Stores({TRUE}, {<<Entry("DP-1", PathSource)>>}, {Entry("all", PathSource)},
                          {FALSE}, {EmptyPowerStore}),
                  {[fractional_scale_manager |-> TRUE, compositor_version |-> 6]},
                  {TRUE}, {TRUE}, {TRUE})
    /\ \E named, default \in Queues :
          wallpapers = <<[Wallpaper_new(Entry("DP-1", PathSource)) EXCEPT
                             !.image_queue = named],
                         [Wallpaper_new(Entry("all", PathSource)) EXCEPT
                             !.image_queue = default]>>
    /\ process_env = SpawnedEnv
    /\ event_loop = Dispatching(TRUE)
    /\ call = NoCall

NextWatch ==
    \E source \in {"DP-1", "all", "HDMI-1"}, kind \in EventKinds, paths \in EventPaths :
        img_source_event(source, kind, paths)

SpecWatch == InitWatch /\ [][NextWatch]_vars

\* ------------------------------- the handle's environment scope: SpecEnv

\* Every environment and every user context; the engine itself is idle.
InitEnv ==
    /\ InitWith(Stores({TRUE}, {<<>>}, {Entry("all", PathSource)}, {FALSE}, {EmptyPowerStore}),
                {[fractional_scale_manager |-> TRUE, compositor_version |-> 6]},
                {TRUE}, {TRUE}, {TRUE})
    /\ process_env \in {UnspawnedEnv(env, user) : env \in Envs, user \in UserContexts}
    /\ event_loop = Dispatching(TRUE)
    /\ call = NoCall

NextEnv ==
    \/ BackgroundHandle_spawn
    \/ BackgroundHandle_stop

SpecEnv == InitEnv /\ [][NextEnv]_vars

\* ------------------------------------------------- outputs and layers

\* The places <<wallpaper index, layer index>> in the list ws of the layers
\* whose output is o.
LayersIn(ws, o) ==
    UNION {{<<i, j>> : j \in {k \in 1..Len(ws[i].layers) : ws[i].layers[k].wl_output = o}} :
           i \in 1..Len(ws)}

\* The elements of active_outputs.
ActiveOutputs == {active_outputs[i] : i \in 1..Len(active_outputs)}

\* C1: every active output has exactly one layer, in exactly one wallpaper,
\* and no layer belongs to an output that is not active.
C1_one_layer_per_active_output ==
    /\ \A o \in ActiveOutputs : Cardinality(LayersIn(wallpapers, o)) = 1
    /\ \A l \in AllLayers : l.wl_output \in ActiveOutputs

\* The output a wallpaper's entry is for, under the specification's rule: the name of
\* the output when the configuration has an entry for it, else "all".
ExpectedEntryOutput(cfg, o) ==
    IF IsSome(output_info(o).name)
       /\ \E k \in 1..Len(cfg.backgrounds) :
             cfg.backgrounds[k].output = Unwrap(output_info(o).name)
    THEN Unwrap(output_info(o).name)
    ELSE "all"

\* C2: an output that is added gets its layer in the wallpaper whose entry is
\* named after the output if the current configuration has such an entry,
\* otherwise in the "all" wallpaper; also when it is added after a rebuild.
C2_added_output_gets_its_entry ==
    [][\A o \in Outputs :
          new_output(o) =>
              /\ LayersIn(wallpapers', o) # {}
              /\ \A at \in LayersIn(wallpapers', o) :
                    wallpapers'[at[1]].entry.output = ExpectedEntryOutput(config, o)]_vars

\* C3: when the compositor destroys an output, the output leaves
\* active_outputs and no wallpaper holds a layer of it any more, whatever
\* state that layer was in.
C3_destroyed_output_is_removed ==
    [][\A o \in Outputs :
          output_destroyed(o) =>
              /\ o \notin {active_outputs'[i] : i \in 1..Len(active_outputs')}
              /\ LayersIn(wallpapers', o) = {}]_vars

\* C3 happens: output_destroyed dropped the layer of a shader surface that
\* was waiting for a frame callback.
C3_witness ==
    /\ effects.handler = "output_destroyed"
    /\ effects.dropped = "shader"
    /\ active_outputs # <<>>


\* ------------------------------------------------- frame callbacks, power

\* The layer of a surface (the surface has one).
layer_of(surface) ==
    LET at == find_layer(surface) IN wallpapers[at[1]].layers[at[2]]

\* The surfaces that have a layer.
layer_surfaces == {l.layer : l \in AllLayers}

\* The step is one of the event loop's handler h: it leaves the clock, the
\* power monitor's watch cell and the store as they are.
handled(h) ==
    /\ effects'.handler = h
    /\ now' = now
    /\ power_state' = power_state
    /\ store' = store

\* The step is frame(surface, acquisition) for a layer that has GPU state.
gpu_frame(surface, acquisition) ==
    /\ handled("frame")
    /\ IsSome(layer_of(surface).gpu_state)
    /\ frame(surface, acquisition)

\* The step is a frame callback of the surface, its layer having GPU state,
\* with whatever outcome of the acquisition.
gpu_frame_callback(surface) ==
    /\ handled("frame")
    /\ IsSome(layer_of(surface).gpu_state)
    /\ \E a \in Acquisitions : frame(surface, a)

\* C4: every frame callback handled for a layer with GPU state requests the
\* next frame callback and commits the surface, whether the frame was paused,
\* skipped by pacing, rendered, or its acquisition failed in any way; the
\* layer keeps a frame callback outstanding.
C4_frame_always_rearms ==
    [][\A s \in layer_surfaces :
          gpu_frame_callback(s) =>
              /\ effects'.frame_requested
              /\ effects'.committed
              /\ \E l \in UNION {{wallpapers'[i].layers[j] : j \in 1..Len(wallpapers'[i].layers)} :
                                 i \in 1..Len(wallpapers')} :
                    l.layer = s /\ l.frame_callbacks >= 1]_vars

\* C4 happens: a frame callback whose acquisition failed without a
\* reconfiguration (timeout, out of memory, other) asked for the next one.
C4_witness ==
    /\ effects.handler = "frame"
    /\ effects.acquired
    /\ ~effects.presented
    /\ ~effects.configured
    /\ effects.frame_requested
    /\ effects.committed

\* The power policy's causes of a pause, stated on the latest snapshot and
\* the current configuration: the lid, the battery below its threshold, and
\* running on battery with the action Pause.
lid_says_pause ==
    power_monitor /\ power_saving_config.pause_on_lid_closed /\ power_state.lid_is_closed

battery_below_threshold ==
    /\ power_monitor
    /\ power_saving_config.pause_on_low_battery
    /\ IsSome(power_state.battery_percentage)
    /\ Unwrap(power_state.battery_percentage) < power_saving_config.low_battery_threshold

on_battery_says_pause ==
    power_monitor /\ power_state.on_battery /\ power_saving_config.on_battery_action = "Pause"

policy_says_pause == lid_says_pause \/ battery_below_threshold \/ on_battery_says_pause

\* C5: a frame callback handled while the power policy says pause acquires
\* no surface texture, renders and presents nothing and leaves the canvas
\* (its last_frame) as it was, and still requests the next frame callback.
C5_paused_frame_draws_nothing ==
    [][\A s \in layer_surfaces :
          (policy_says_pause /\ gpu_frame_callback(s)) =>
              /\ effects'.paused
              /\ ~effects'.acquired
              /\ ~effects'.rendered
              /\ ~effects'.presented
              /\ effects'.frame_requested
              /\ \E l \in UNION {{wallpapers'[i].layers[j] : j \in 1..Len(wallpapers'[i].layers)} :
                                 i \in 1..Len(wallpapers')} :
                    l.layer = s /\ l.gpu_state = layer_of(s).gpu_state]_vars

\* C5 happens: a frame callback was handled with the lid closed, at a time
\* when pacing would have let the frame through.
C5_witness ==
    /\ effects.handler = "frame"
    /\ effects.paused
    /\ effects.frame_requested
    /\ lid_says_pause
    /\ \E l \in AllLayers :
          IsSome(l.gpu_state) /\ now - Unwrap(l.gpu_state).canvas.last_frame >= 2


\* The latest snapshot gives the policy no cause of a pause: no monitor, or
\* the lid open (or not watched), the battery strictly above its threshold
\* (or unknown, or not watched) and not on battery with the action Pause.
no_cause_of_pause ==
    \/ ~power_monitor
    \/ /\ ~lid_says_pause
       /\ ~on_battery_says_pause
       /\ ~(/\ power_saving_config.pause_on_low_battery
            /\ IsSome(power_state.battery_percentage)
            /\ Unwrap(power_state.battery_percentage)
                  <= power_saving_config.low_battery_threshold)

\* C6 as stated: when the frame callback before was paused and the latest
\* snapshot no longer gives a cause of a pause, the first frame callback
\* handled after the change renders (its acquisition succeeding).
C6_resumes_on_first_callback ==
    [][\A s \in layer_surfaces :
          (/\ effects.handler = "frame"
           /\ effects.paused
           /\ no_cause_of_pause
           /\ gpu_frame(s, "Ok")) =>
              effects'.rendered /\ effects'.presented]_vars

\* C6 amended: after a pause, a frame callback handled when the latest
\* snapshot gives no cause of a pause is not paused, however long the pause
\* lasted, and it renders and presents if its acquisition succeeds and the
\* canvas' frame interval has passed since its last rendered frame.
C6_resumes_when_pacing_allows ==
    [][\A s \in layer_surfaces :
          (/\ effects.handler = "frame"
           /\ effects.paused
           /\ no_cause_of_pause
           /\ gpu_frame_callback(s)) =>
              /\ ~effects'.paused
              /\ (/\ frame(s, "Ok")
                  /\ elapsed(Unwrap(layer_of(s).gpu_state).canvas, now)
                        >= Unwrap(layer_of(s).gpu_state).canvas.frame_interval)
                 => /\ effects'.rendered
                    /\ effects'.presented
                    /\ \E l \in UNION {{wallpapers'[i].layers[j] :
                                          j \in 1..Len(wallpapers'[i].layers)} :
                                       i \in 1..Len(wallpapers')} :
                          l.layer = s /\ Unwrap(l.gpu_state).canvas.last_frame = now]_vars

\* C6 happens: the frame callback after a paused one rendered.
C6_witness ==
    /\ effects.handler = "frame"
    /\ effects.after_pause
    /\ ~effects.paused
    /\ effects.rendered

\* C7: a change of a power-saving key makes the engine hold the values the
\* store has, without recreating layers or the power monitor, and the next
\* frame callback decides with them: at 19% the frame is paused under the
\* threshold 20 and not paused under the threshold 10 (no other cause).
C7_power_config_change_applies ==
    [][/\ (handled("config_changed")
           /\ \E k \in PowerKeys : config_changed(<<<<"power", k>>>>)) =>
                /\ \A f \in PowerKeys :
                      IsSome(store.power[f]) =>
                          power_saving_config'[f] = Unwrap(store.power[f])
                /\ wallpapers' = wallpapers
                /\ power_monitor' = power_monitor
                /\ monitor' = monitor
       /\ \A s \in layer_surfaces :
            (/\ power_monitor
             /\ power_saving_config.pause_on_low_battery
             /\ power_state.battery_percentage = Some(19)
             /\ gpu_frame_callback(s)) =>
                /\ power_saving_config.low_battery_threshold = 20 => effects'.paused
                /\ (/\ power_saving_config.low_battery_threshold = 10
                    /\ ~lid_says_pause
                    /\ ~on_battery_says_pause) => ~effects'.paused]_vars

\* C7 happens: at 19%, a frame callback was paused and, the threshold having
\* changed to 10, the next one was not.
C7_witness ==
    /\ effects.handler = "frame"
    /\ effects.after_pause
    /\ ~effects.paused
    /\ power_monitor
    /\ power_state.battery_percentage = Some(19)
    /\ power_saving_config.pause_on_low_battery
    /\ power_saving_config.low_battery_threshold = 10

\* The frames per second of the on-battery actions that reduce the rate, 0
\* for the others.
reduced_rate(action) ==
    CASE action = "ReduceTo15Fps" -> 15
      [] action = "ReduceTo10Fps" -> 10
      [] action = "ReduceTo5Fps" -> 5
      [] OTHER -> 0

\* C8: on battery with an on-battery action that reduces the frame rate, the
\* shader canvases pace their frames at that rate: a frame is rendered only
\* when 1/rate seconds have passed since the canvas' last rendered frame.
C8_on_battery_paces_at_reduced_rate ==
    [][\A s \in layer_surfaces :
          (/\ power_monitor
           /\ power_state.on_battery
           /\ reduced_rate(power_saving_config.on_battery_action) # 0
           /\ effects'.rendered
           /\ gpu_frame_callback(s)) =>
              now - Unwrap(layer_of(s).gpu_state).canvas.last_frame
                  >= 60 \div reduced_rate(power_saving_config.on_battery_action)]_vars

\* The default power-saving configuration: what a load from an empty store
\* gives, or what default() builds.
is_default_power_saving_config ==
    /\ power_saving_config.pause_on_fullscreen = FALSE
    /\ power_saving_config.pause_on_covered = FALSE
    /\ power_saving_config.coverage_threshold = 90
    /\ power_saving_config.adjust_on_battery = FALSE
    /\ power_saving_config.pause_on_low_battery = TRUE
    /\ power_saving_config.low_battery_threshold = 20
    /\ power_saving_config.pause_on_lid_closed = TRUE
    /\ \/ power_saving_config = PowerSavingConfig_load(EmptyPowerStore)
       \/ power_saving_config = PowerSavingConfig_default

\* C9: with the default power-saving configuration a frame is paused only
\* when the battery is low (at or below 20%) or the lid is closed; on
\* battery, above the threshold and with the lid open, it is not paused.
C9_default_config_pauses_only_on_low_battery_or_lid ==
    [][\A s \in layer_surfaces :
          (/\ is_default_power_saving_config
           /\ effects'.paused
           /\ gpu_frame_callback(s)) =>
              /\ power_monitor
              /\ \/ power_state.lid_is_closed
                 \/ /\ IsSome(power_state.battery_percentage)
                    /\ Unwrap(power_state.battery_percentage) <= 20]_vars

C11_lost_service_never_pauses ==
    [][\A s \in layer_surfaces :
          (monitor.pc = "ended" /\ gpu_frame_callback(s)) => ~effects'.paused]_vars

\* ------------------------------------------------- the environment scope

\* C12: apply followed by dropping the guard leaves the process environment
\* as it was before apply: the same names present, with the same values.
C12_apply_then_drop_restores_env ==
    process_env.pc = "stopped" =>
        \A n \in EnvNames : process_env.env[n] = process_env.before[n]

\* C12 happens: the guard was dropped after a context that names one variable
\* twice with different values, and a variable that was absent before.
C12_witness ==
    /\ process_env.pc = "stopped"
    /\ \E i, j \in 1..Len(process_env.user) :
          /\ i < j
          /\ process_env.user[i][1] = process_env.user[j][1]
          /\ process_env.user[i][2] # process_env.user[j][2]
          /\ IsSome(process_env.before[process_env.user[i][1]])
    /\ \E k \in 1..Len(process_env.user) : IsNone(process_env.before[process_env.user[k][1]])

\* C13: after the first configure event and after every later configure or
\* scale event, a shader layer's GPU surface is configured with the physical
\* size computed from the layer's logical size and fractional scale,
\* (w * S / 120, h * S / 120), whatever the output's mode is.
C13_surface_configured_at_physical_size ==
    \A l \in AllLayers :
        (IsSome(l.gpu_state) /\ IsSome(l.size)) =>
            LET S == UnwrapOr(l.fractional_scale, 120) IN
            Unwrap(l.gpu_state).surface_config =
                <<(Unwrap(l.size)[1] * S) \div 120, (Unwrap(l.size)[2] * S) \div 120>>

\* C14: shader_physical_size returns (w * S / 120, h * S / 120) whenever the
\* layer's size (w, h) is known, the output's mode being known or not; the
\* mode's dimensions when only the mode is known; and
\* (1920 * S / 120, 1080 * S / 120) when neither is known. S is the
\* fractional scale, 120 when there is none.
C14_physical_size_prefers_layer_size ==
    (call.pc = "returned" /\ call.fn = "shader_physical_size") =>
        LET layer_size == call.args[1]
            S == IF IsSome(call.args[2]) THEN Unwrap(call.args[2]) ELSE 120
            mode == call.args[3]
            result == Unwrap(call.result)
        IN /\ IsSome(layer_size) =>
                 result = <<(Unwrap(layer_size)[1] * S) \div 120,
                            (Unwrap(layer_size)[2] * S) \div 120>>
           /\ (IsNone(layer_size) /\ IsSome(mode)) => result = Unwrap(mode)
           /\ (IsNone(layer_size) /\ IsNone(mode)) =>
                 result = <<(1920 * S) \div 120, (1080 * S) \div 120>>

\* The function returned for a layer of known size, at a scale that does not
\* divide it, on an output whose mode is known and differs.
C14_witness ==
    /\ call.pc = "returned"
    /\ call.fn = "shader_physical_size"
    /\ call.args = <<Some(<<5, 3>>), Some(180), Some(<<8, 4>>)>>
    /\ call.result = Some(<<7, 4>>)

\* C15: the viewport destination of a shader layer is the layer's logical
\* size, after the GPU surface is initialised and after every later configure
\* or scale change; it is never the physical size of the GPU surface.
C15_viewport_destination_is_logical_size ==
    \A l \in AllLayers :
        IsSome(l.gpu_state) => (IsSome(l.size) /\ l.viewport_destination = l.size)

\* A shader layer whose scale changed after its configure event: the GPU
\* surface is 7x4, the viewport's destination the logical 5x3.
C15_witness ==
    /\ effects.handler \in {"PreferredScale", "scale_factor_changed", "update_output"}
    /\ \E l \in AllLayers :
          /\ IsSome(l.gpu_state)
          /\ l.size = Some(<<5, 3>>)
          /\ l.fractional_scale \in {Some(180), Some(240)}
          /\ Unwrap(l.gpu_state).surface_config # <<5, 3>>
          /\ l.viewport_destination = Some(<<5, 3>>)

\* The wallpaper of the layer of this surface is a shader.
on_shader_wallpaper(surface) == is_shader(wallpapers[find_layer(surface)[1]])

\* C16 as the specification states it: in every reachable state a layer has
\* GPU state if and only if its wallpaper's source is a shader and the layer
\* has received a configure event.
C16_gpu_state_iff_shader_and_configured ==
    \A s \in layer_surfaces :
        IsSome(layer_of(s).gpu_state) <=>
            (on_shader_wallpaper(s) /\ IsSome(layer_of(s).size))

\* C16, amended: a layer that has GPU state is on a shader wallpaper and has
\* received a configure event; and a layer has GPU state after a step exactly
\* when it had it before the step, or the step is a configure event of this
\* layer, on a shader wallpaper, whose canvas was built.
C16_gpu_state_iff_canvas_built ==
    [][\A i \in 1..Len(wallpapers') : \A j \in 1..Len(wallpapers'[i].layers) :
          LET after == wallpapers'[i].layers[j] IN
          /\ IsSome(after.gpu_state) => (is_shader(wallpapers'[i]) /\ IsSome(after.size))
          /\ IsSome(after.gpu_state) <=>
                \/ \E before \in AllLayers :
                      before.layer = after.layer /\ IsSome(before.gpu_state)
                \/ /\ handled("configure")
                   /\ after.layer \in layer_surfaces
                   /\ on_shader_wallpaper(after.layer)
                   /\ \E size \in Sizes, acquired \in BOOLEAN :
                         configure(after.layer, size, TRUE, acquired)]_vars

\* After a configure event, one shader layer has GPU state and another
\* shader layer that was configured has none: its canvas was not built.
C16_witness ==
    /\ effects.handler = "configure"
    /\ \E s, t \in layer_surfaces :
          /\ on_shader_wallpaper(s) /\ IsSome(layer_of(s).gpu_state)
          /\ on_shader_wallpaper(t) /\ IsSome(layer_of(t).size)
          /\ IsNone(layer_of(t).gpu_state)

\* C18: for every ShaderSource whose language is detected as Glsl (declared
\* Glsl, or a shader path with extension glsl or frag whatever language is
\* declared; inline code keeps its declared language), building the fragment
\* canvas fails with UnsupportedLanguage(Glsl).
C18_glsl_fails_as_unsupported_language ==
    (call.pc = "returned" /\ call.fn = "FragmentCanvas::new") =>
        LET source == call.args[1]
            by_path == /\ source.shader.kind = "Path"
                       /\ extension(source.shader.file_name)
                              \in {Some(<<"glsl">>), Some(<<"frag">>)}
        IN (by_path \/ source.language = "Glsl") =>
              call.result = Some("UnsupportedLanguage(Glsl)")

\* The step is a configure event of the surface, whose layer is on a shader
\* wallpaper and has no GPU state; built tells whether FragmentCanvas::new
\* returns Ok.
init_configure(surface, built) ==
    /\ handled("configure")
    /\ on_shader_wallpaper(surface)
    /\ IsNone(layer_of(surface).gpu_state)
    /\ \E size \in Sizes, acquired \in BOOLEAN : configure(surface, size, built, acquired)

\* C17: when building the canvas of a shader layer fails, the layer is left
\* without GPU state and without a requested frame callback, every other
\* layer is as it was, and the next configure event of the failed layer
\* attempts the initialisation again: it attaches GPU state and requests a
\* frame callback when the canvas is built this time.
C17_failed_build_leaves_layer_uninitialised ==
    [][\A s \in layer_surfaces :
          /\ init_configure(s, FALSE) =>
                /\ IsNone(layer_of(s)'.gpu_state)
                /\ ~effects'.frame_requested
                /\ layer_of(s)'.frame_callbacks = 0
                /\ \A t \in layer_surfaces \ {s} :
                      t \in layer_surfaces' /\ layer_of(t)' = layer_of(t)
          /\ (IsSome(layer_of(s).size) /\ init_configure(s, TRUE)) =>
                /\ IsSome(layer_of(s)'.gpu_state)
                /\ effects'.frame_requested
                /\ layer_of(s)'.frame_callbacks = 1]_vars

\* A configure event whose canvas was not built: the layer is configured,
\* has no GPU state and no frame callback, next to a layer that is rendering.
C17_witness ==
    /\ effects.handler = "configure"
    /\ effects.configured
    /\ ~effects.frame_requested
    /\ \E s, t \in layer_surfaces :
          /\ IsSome(layer_of(s).gpu_state) /\ layer_of(s).frame_callbacks > 0
          /\ on_shader_wallpaper(t) /\ IsSome(layer_of(t).size)
          /\ IsNone(layer_of(t).gpu_state) /\ layer_of(t).frame_callbacks = 0

\* C19: when the acquisition of the surface texture in a frame callback
\* returns Lost or Outdated, the surface is configured again with the width
\* and height of its surface_config, the resolution uniform is rewritten to
\* them, nothing is rendered or presented and last_frame stays as it is, the
\* frame callback is re-armed, and pacing still allows a render; the next
\* frame callback, when it is not paused and its acquisition succeeds,
\* renders.
C19_lost_surface_is_reconfigured ==
    [][\A s \in layer_surfaces :
          /\ (\E a \in {"Lost", "Outdated"} : gpu_frame(s, a) /\ effects'.acquired) =>
                LET before == Unwrap(layer_of(s).gpu_state)
                    after == Unwrap(layer_of(s)'.gpu_state)
                IN /\ effects'.configured
                   /\ after.surface_config = before.surface_config
                   /\ after.canvas.resolution = Some(before.surface_config)
                   /\ ~effects'.rendered /\ ~effects'.presented
                   /\ after.canvas.last_frame = before.canvas.last_frame
                   /\ effects'.frame_requested /\ effects'.committed
                   /\ layer_of(s)'.frame_callbacks > 0
                   /\ should_render(after.canvas, now')
          /\ (/\ effects.handler = "frame" /\ effects.configured
              /\ gpu_frame(s, "Ok") /\ ~effects'.paused) =>
                /\ effects'.rendered /\ effects'.presented
                /\ Unwrap(layer_of(s)'.gpu_state).canvas.last_frame = now]_vars

\* A frame callback whose acquisition was lost or outdated: the surface was
\* configured again, nothing was rendered, the callback is re-armed and the
\* canvas is still due.
C19_witness ==
    /\ effects.handler = "frame"
    /\ effects.acquired /\ effects.configured /\ ~effects.rendered
    /\ effects.frame_requested
    /\ \E l \in AllLayers :
          /\ IsSome(l.gpu_state)
          /\ now > 0
          /\ Unwrap(l.gpu_state).canvas.last_frame < now
          /\ Unwrap(l.gpu_state).canvas.resolution = Some(Unwrap(l.gpu_state).surface_config)
          /\ should_render(Unwrap(l.gpu_state).canvas, now)

\* C20: on every shader layer, after a frame was rendered (in the first
\* configure event or in a frame callback) last_frame is the time of the
\* render and should_render() is false until at least half the frame
\* interval has passed; a frame callback renders only when at least that
\* long has passed since last_frame.
C20_no_render_within_half_interval ==
    [][/\ \A l \in AllLayers' :
             IsSome(l.gpu_state) =>
                 LET canvas == Unwrap(l.gpu_state).canvas IN
                 (2 * elapsed(canvas, now') < canvas.frame_interval) =>
                     ~should_render(canvas, now')
       /\ \A s \in layer_surfaces :
             /\ (init_configure(s, TRUE) /\ effects'.rendered) =>
                   Unwrap(layer_of(s)'.gpu_state).canvas.last_frame = now
             /\ (gpu_frame(s, "Ok") /\ effects'.rendered) =>
                   LET before == Unwrap(layer_of(s).gpu_state).canvas
                       after == Unwrap(layer_of(s)'.gpu_state).canvas
                   IN /\ 2 * elapsed(before, now) >= before.frame_interval
                      /\ after.last_frame = now
                      /\ ~should_render(after, now)]_vars

\* A frame callback rendered a second frame, a frame interval after the
\* first: the canvas is not due again.
C20_witness ==
    /\ effects.handler = "frame"
    /\ effects.rendered
    /\ now > 0
    /\ \E l \in AllLayers :
          /\ IsSome(l.gpu_state)
          /\ Unwrap(l.gpu_state).canvas.last_frame = now
          /\ ~should_render(Unwrap(l.gpu_state).canvas, now)

\* C21: for every width w of 32 bits, aligned_bytes_per_row(w, 4) returns a
\* multiple of the copy-row alignment that is at least w * 4, and equal to
\* w * 4 exactly when w * 4 is a multiple of the alignment.
C21_aligned_row_is_least_multiple ==
    (call.pc = "returned" /\ call.fn = "aligned_bytes_per_row") =>
        LET exact == wide_mul(call.args[1], 4)
            row == Unwrap(call.result)
        IN /\ ~row.panicked
           /\ row.value[2] % COPY_BYTES_PER_ROW_ALIGNMENT = 0
           /\ pair_le(exact, row.value)
           /\ (row.value = exact) <=> (exact[2] % COPY_BYTES_PER_ROW_ALIGNMENT = 0)

\* C22: for every RGBA input of w * h * 4 bytes, texture_upload_data returns
\* bytes_per_row = aligned_bytes_per_row(w, 4) and rows = h; when padding is
\* needed the buffer has exactly bytes_per_row * h bytes and the first w * 4
\* bytes of each of its rows are the input's row; when w * 4 is aligned the
\* input is returned as it is, borrowed.
C22_upload_pads_each_row ==
    (call.pc = "returned" /\ call.fn = "texture_upload_data") =>
        LET rgba == call.args[1]
            w == call.args[2]
            h == call.args[3]
            upload == Unwrap(call.result)
            aligned == (w * 4) % COPY_BYTES_PER_ROW_ALIGNMENT = 0
        IN /\ ~upload.panicked
           /\ upload.bytes_per_row = as_int(aligned_bytes_per_row(u32(w), 4, FALSE).value)
           /\ upload.rows = h
           /\ aligned => (upload.kind = "Borrowed" /\ upload.data = rgba)
           /\ ~aligned =>
                 /\ upload.kind = "Owned"
                 /\ Len(upload.data) = upload.bytes_per_row * h
                 /\ \A row \in 0..(h - 1), k \in 0..(w * 4 - 1) :
                       upload.data[row * upload.bytes_per_row + k + 1]
                           = byte_of(rgba.pattern, row * w * 4 + k)

\* C23: after a watcher event of kind Created or renamed-into carrying path
\* p for source s, every wallpaper bound to s has p in its image queue, at
\* the front when p was not in the queue before (and the event carried only
\* p); after a Removed or renamed-away event p is in none of those queues.
C23_created_paths_are_queued ==
    [][\A source \in {"DP-1", "all"}, paths \in EventPaths :
          /\ (/\ handled("img_source")
              /\ \E kind \in {"Create", "RenameTo"} : img_source_event(source, kind, paths)) =>
                \A i \in 1..Len(wallpapers) :
                    wallpapers[i].entry.output = source =>
                        \A k \in 1..Len(paths) :
                            /\ contains(wallpapers'[i].image_queue, paths[k])
                            /\ (Len(paths) = 1 /\ ~contains(wallpapers[i].image_queue, paths[k]))
                                  => wallpapers'[i].image_queue[1] = paths[k]
          /\ (/\ handled("img_source")
              /\ \E kind \in {"Remove", "RenameFrom"} : img_source_event(source, kind, paths)) =>
                \A i \in 1..Len(wallpapers) :
                    wallpapers[i].entry.output = source =>
                        \A k \in 1..Len(paths) :
                            ~contains(wallpapers'[i].image_queue, paths[k])]_vars

\* The stop channel holds a stop signal: a message, or the news that its
\* sender is gone.
stop_signalled ==
    /\ event_loop.stop_rx
    /\ event_loop.msgs > 0 \/ (~event_loop.sender /\ ~event_loop.closed)

\* C24: once a stop message is sent on the stop channel, or its sender is
\* dropped, the engine sets exit while it handles that event and the loop
\* ends, so that BackgroundHandle::stop returns; exit is set by nothing
\* else, and the loop ends with Ok only after a stop signal: without one it
\* ends only by a dispatch error.
C24_stop_ends_the_loop ==
    /\ [][(effects'.handler = "stop" /\ stop_event) => exit']_vars
    /\ [][(exit' /\ ~exit) => (stop_signalled /\ stop_event)]_vars
    /\ [](event_loop.pc = "ended" => (exit /\ event_loop.stop_rx))
    /\ stop_signalled ~> (event_loop.pc \in {"ended", "failed"})
    /\ (process_env.pc = "stopping") ~> (process_env.pc = "stopped")

\* stop has returned: the message was handled, exit is set and the loop
\* ended with Ok.
C24_witness ==
    /\ process_env.pc = "stopped"
    /\ exit
    /\ event_loop.pc = "ended"
    /\ event_loop.msgs = 0

\* C25: when a change batch rebuilds the wallpaper list, a layer on an
\* output whose entry is still there with the same kind of source is moved
\* to the new wallpaper: the new wallpaper of that entry holds the very same
\* layer (surface, size, scale, pool and GPU state).
C25_rebuild_keeps_layers ==
    [][(handled("config_changed") /\ effects'.committed) =>
          \A i \in 1..Len(wallpapers) : \A j \in 1..Len(wallpapers[i].layers) :
              \A k \in 1..Len(wallpapers') :
                  (/\ wallpapers'[k].entry.output = wallpapers[i].entry.output
                   /\ wallpapers'[k].entry.source.kind = wallpapers[i].entry.source.kind
                   /\ \E n \in 1..Len(wallpapers'[k].layers) :
                         wallpapers'[k].layers[n].wl_output = wallpapers[i].layers[j].wl_output)
                  => \E n \in 1..Len(wallpapers'[k].layers) :
                         wallpapers'[k].layers[n] = wallpapers[i].layers[j]]_vars

\* C26: the frame interval of a canvas is always 1 / clamp(r, 1, 60), r
\* being the latest override when one is set and the source's frame rate
\* otherwise; the configured rate is the source's rate clamped and no
\* override changes it, and set_frame_rate_override(None) restores the
\* interval of the configured rate.
C26_interval_follows_override ==
    /\ [](call.pc = "returned" =>
            LET canvas == Unwrap(call.result)
                r == IF Len(call.args) = 2 /\ IsSome(call.args[2])
                     THEN Unwrap(call.args[2]) ELSE call.args[1]
                clamped == IF r < 1 THEN 1 ELSE IF r > 60 THEN 60 ELSE r
            IN /\ canvas.frame_interval = 1000000000 \div clamped
               /\ canvas.configured_frame_rate
                     = (IF call.args[1] < 1 THEN 1
                        ELSE IF call.args[1] > 60 THEN 60 ELSE call.args[1]))
    /\ [][call_set_frame_rate_override(None) =>
             Unwrap(call'.result).frame_interval
                 = 1000000000 \div Unwrap(call'.result).configured_frame_rate]_vars
    /\ [][(call.pc = "returned" /\ call'.pc = "returned") =>
             Unwrap(call'.result).configured_frame_rate
                 = Unwrap(call.result).configured_frame_rate]_vars

\* set_frame_rate_override(None) was called on the canvas of a 30 fps source:
\* the interval is 1/30 s again.
C26_witness ==
    /\ call.pc = "returned"
    /\ call.args = <<30, None>>
    /\ Unwrap(call.result).frame_interval = 33333333

\* The step reconfigured the surface of the layer before: the layer is
\* still there with its GPU state, the surface was configured and not
\* created, its configuration and the canvas' resolution are the layer's
\* physical size, and the canvas' start time and last frame are as before.
reconfigured(before) ==
    /\ effects'.configured
    /\ ~effects'.surface_created
    /\ \E i \in 1..Len(wallpapers') : \E j \in 1..Len(wallpapers'[i].layers) :
          LET after == wallpapers'[i].layers[j] IN
          /\ after.layer = before.layer
          /\ IsSome(after.gpu_state)
          /\ LET old == Unwrap(before.gpu_state)
                 new == Unwrap(after.gpu_state)
                 physical == shader_physical_size(after.size, after.fractional_scale,
                                                  output_info(after.wl_output).mode)
             IN /\ new.surface_config = physical
                /\ new.canvas.resolution = Some(physical)
                /\ new.canvas.start_time = old.canvas.start_time
                /\ new.canvas.last_frame = old.canvas.last_frame
                /\ new.canvas.configured_frame_rate = old.canvas.configured_frame_rate

C28_timeout_drops_one_frame ==
    [][\A s \in layer_surfaces :
          (/\ handled("frame")
           /\ effects'.acquired
           /\ \E a \in {"Timeout", "OutOfMemory"} : gpu_frame(s, a)) =>
             \E i \in 1..Len(wallpapers') : \E j \in 1..Len(wallpapers'[i].layers) :
                LET before == layer_of(s)
                    after == wallpapers'[i].layers[j]
                IN /\ after.layer = s
                   /\ after.gpu_state = before.gpu_state
                   /\ after.size = before.size
                   /\ after.fractional_scale = before.fractional_scale
                   /\ effects'.acquisitions = 1
                   /\ ~effects'.rendered /\ ~effects'.presented /\ ~effects'.configured
                   /\ ~effects'.surface_created
                   /\ effects'.frame_requested /\ effects'.committed
                   /\ after.frame_callbacks = before.frame_callbacks
                   /\ after.frame_callbacks > 0]_vars

\* A frame callback that was due and not paused asked for the texture once
\* and drew nothing, a tick after the canvas' last frame, and the canvas is
\* still due.
C28_witness ==
    /\ effects.handler = "frame"
    /\ effects.acquired
    /\ effects.acquisitions = 1
    /\ ~effects.rendered
    /\ ~effects.configured
    /\ now > 0
    /\ \E l \in AllLayers :
          /\ IsSome(l.gpu_state)
          /\ l.frame_callbacks > 0
          /\ should_render(Unwrap(l.gpu_state).canvas, now)

\* C29: a change batch of power-saving keys only replaces the engine's
\* power-saving configuration by the store's current values (the fallback
\* of a key that is not set) and leaves the wallpapers with every layer,
\* pool and GPU state as they are: nothing is rebuilt, no surface is made
\* and nothing is committed.
C29_power_batch_rebuilds_nothing ==
    [][\A keys \in SettingsBatches :
          (/\ handled("config_changed")
           /\ \A k \in 1..Len(keys) : keys[k][1] = "power"
           /\ config_changed(keys)) =>
              /\ \A f \in PowerKeys :
                    power_saving_config'[f] =
                        IF IsSome(store.power[f]) THEN Unwrap(store.power[f])
                        ELSE PowerSavingConfig_load(EmptyPowerStore)[f]
              /\ wallpapers' = wallpapers
              /\ config' = config
              /\ next_surface' = next_surface
              /\ active_outputs' = active_outputs
              /\ gpu_renderer' = gpu_renderer
              /\ ~effects'.committed /\ ~effects'.surface_created]_vars

\* A batch has brought the engine the threshold the settings application
\* wrote, while the output's layer has a pool or GPU state.
C29_witness ==
    /\ effects.handler = "config_changed"
    /\ ~effects.committed
    /\ store.power.low_battery_threshold = Some(10)
    /\ power_saving_config.low_battery_threshold = 10
    /\ \E l \in AllLayers : IsSome(l.pool) \/ IsSome(l.gpu_state)

\* C30: after a change batch that turns same_on_all on, the per-output
\* overrides are gone: the rebuilt list has no wallpaper of a per-output
\* entry, and every active output has its layer on the "all" wallpaper.
C30_same_on_all_clears_overrides ==
    [][(/\ handled("config_changed")
        /\ ~config.same_on_all
        /\ config'.same_on_all) =>
           /\ \A i \in 1..Len(wallpapers') : wallpapers'[i].entry.output = "all"
           /\ \A k \in 1..Len(active_outputs') :
                 \E i \in 1..Len(wallpapers') :
                    /\ wallpapers'[i].entry.output = "all"
                    /\ \E j \in 1..Len(wallpapers'[i].layers) :
                          wallpapers'[i].layers[j].wl_output = active_outputs'[k]]_vars

\* C31: a change key output.<name> replaces the in-memory entry of <name> by
\* the store's entry and rebuilds the wallpapers once (one new layer per
\* active output); when the in-memory configuration has no entry of <name>,
\* or the store has none to read, the configuration and the wallpapers are
\* left as they are.
C31_output_key_updates_in_place ==
    [][(handled("config_changed") /\ config_changed(<<<<"output", "DP-1">>>>)) =>
          LET in_memory == {i \in 1..Len(config.backgrounds) :
                                config.backgrounds[i].output = "DP-1"}
              in_store == {i \in 1..Len(store.backgrounds) :
                               store.backgrounds[i].output = "DP-1"}
          IN IF in_memory # {} /\ in_store # {}
             THEN /\ Len(config'.backgrounds) = Len(config.backgrounds)
                  /\ \A i \in 1..Len(config.backgrounds) :
                        config'.backgrounds[i] =
                            IF i \in in_memory
                            THEN store.backgrounds[CHOOSE k \in in_store : TRUE]
                            ELSE config.backgrounds[i]
                  /\ config'.default_background = config.default_background
                  /\ config'.same_on_all = config.same_on_all
                  /\ next_surface' = next_surface + Len(active_outputs)
                  /\ \A o \in 1..Len(active_outputs) :
                        \E i \in 1..Len(wallpapers') : \E j \in 1..Len(wallpapers'[i].layers) :
                           /\ wallpapers'[i].layers[j].wl_output = active_outputs[o]
                           /\ wallpapers'[i].layers[j].layer >= next_surface
                           /\ wallpapers'[i].layers[j].layer < next_surface'
                  /\ \A i \in 1..Len(wallpapers') :
                        \/ wallpapers'[i].entry = config'.default_background
                        \/ \E k \in 1..Len(config'.backgrounds) :
                              wallpapers'[i].entry = config'.backgrounds[k]
             ELSE /\ config' = config
                  /\ wallpapers' = wallpapers
                  /\ next_surface' = next_surface
                  /\ ~effects'.committed]_vars

\* The DP-1 entry in memory was replaced by the store's shader entry and the
\* rebuilt list gives the active output DP-1 a layer on the new entry's
\* wallpaper.
C31_witness ==
    /\ effects.handler = "config_changed"
    /\ effects.committed
    /\ config.backgrounds = <<Entry("DP-1", ShaderSource(30))>>
    /\ config.backgrounds = store.backgrounds
    /\ \E i \in 1..Len(wallpapers) :
          /\ wallpapers[i].entry = Entry("DP-1", ShaderSource(30))
          /\ Len(wallpapers[i].layers) = 1
          /\ wallpapers[i].layers[1].layer > 1

\* Some entry of the configuration, per output or default, is a shader.
some_entry_is_shader ==
    \E e \in {config.backgrounds[i] : i \in 1..Len(config.backgrounds)}
             \cup {config.default_background} : e.source.kind = "Shader"

\* C32: the GPU renderer exists at startup exactly when some entry of the
\* configuration has a shader source; later it is created only by a
\* configure event of a shader layer that has no GPU state yet; and while
\* every entry is static no renderer is created and no layer has GPU state.
C32_gpu_renderer_only_for_shaders ==
    /\ [](effects.handler = "init" => (gpu_renderer <=> some_entry_is_shader))
    /\ [][(gpu_renderer' /\ ~gpu_renderer) =>
             /\ effects'.handler = "configure"
             /\ effects'.surface_created
             /\ some_entry_is_shader
             /\ \E i \in 1..Len(wallpapers) : \E j \in 1..Len(wallpapers[i].layers) :
                   /\ wallpapers[i].entry.source.kind = "Shader"
                   /\ IsNone(wallpapers[i].layers[j].gpu_state)
                   /\ wallpapers'[i].layers[j] # wallpapers[i].layers[j]]_vars
    /\ [][~some_entry_is_shader =>
             (gpu_renderer' = gpu_renderer /\ ~effects'.surface_created)]_vars
    /\ [](~some_entry_is_shader => \A l \in AllLayers : IsNone(l.gpu_state))

\* The renderer that was not there at startup was created by the configure
\* event of a layer made by a rebuild, after a shader entry was written.
C32_witness ==
    /\ effects.handler = "configure"
    /\ effects.surface_created
    /\ gpu_renderer
    /\ \E l \in AllLayers : IsSome(l.gpu_state) /\ l.layer > 1

\* The step changes the fractional scale of the layers on the surfaces or
\* outputs in changed to Some(scale), and of no other layer; no layer comes
\* or goes.
only_scale_of(changed_surfaces, changed_output, scale) ==
    /\ Len(wallpapers') = Len(wallpapers)
    /\ \A i \in 1..Len(wallpapers) :
          /\ Len(wallpapers'[i].layers) = Len(wallpapers[i].layers)
          /\ \A j \in 1..Len(wallpapers[i].layers) :
                LET before == wallpapers[i].layers[j]
                    after == wallpapers'[i].layers[j]
                IN /\ after.layer = before.layer
                   /\ after.fractional_scale =
                         IF \/ before.layer \in changed_surfaces
                            \/ before.wl_output \in changed_output
                         THEN Some(scale) ELSE before.fractional_scale

\* C33: a layer's fractional scale is in 120ths and has one source. With the
\* fractional-scale manager bound a layer starts without a scale and only a
\* PreferredScale event stores one, as it comes; scale_factor_changed and
\* update_output change no layer. Without the manager an integer factor k is
\* stored as k * 120, by scale_factor_changed, and by new_layer and
\* update_output only below version 6 of the compositor.
C33_scale_has_one_source ==
    /\ [](\A l \in AllLayers :
             IF globals.fractional_scale_manager
             THEN l.fractional_scale \in {None} \cup {Some(p) : p \in PreferredScales}
             ELSE l.fractional_scale \in {None} \cup {Some(k * 120) : k \in ScaleFactors})
    /\ [][\A sf \in Surfaces :
             /\ \A p \in PreferredScales :
                   PreferredScale(sf, p) => only_scale_of({sf}, {}, p)
             /\ \A k \in ScaleFactors :
                   scale_factor_changed(sf, k) =>
                      IF globals.fractional_scale_manager
                      THEN wallpapers' = wallpapers
                      ELSE only_scale_of({sf}, {}, k * 120)]_vars
    /\ [][\A o \in Outputs :
             update_output(o) =>
                IF globals.fractional_scale_manager \/ globals.compositor_version >= 6
                THEN wallpapers' = wallpapers
                ELSE only_scale_of({}, {o}, output_info(o).scale_factor * 120)]_vars
    /\ [][\A o \in Outputs :
             (handled("new_output") /\ new_output(o)) =>
                \A l \in AllLayers' :
                   (l \notin AllLayers) =>
                      l.fractional_scale =
                         IF ~globals.fractional_scale_manager /\ globals.compositor_version < 6
                         THEN Some(output_info(o).scale_factor * 120)
                         ELSE None]_vars
    /\ [][effects'.handler \in {"configure", "frame"} =>
             only_scale_of({}, {}, 0)]_vars

\* With the manager bound, the layer holds the preferred scale 180 after an
\* integer scale factor arrived for its surface.
C33_witness ==
    /\ globals.fractional_scale_manager
    /\ effects.handler = "scale_factor_changed"
    /\ \E l \in AllLayers : l.fractional_scale = Some(180)

\* The values of the three keys no decision reads.
UnreadKeys ==
    [pause_on_fullscreen : BOOLEAN, pause_on_covered : BOOLEAN,
     coverage_threshold : {50, 90}]

C35_no_texture_across_handlers ==
    /\ [](effects.presented =>
             /\ effects.acquired /\ effects.rendered
             /\ effects.acquisitions = 1
             /\ effects.handler \in {"configure", "frame"}
             /\ effects.handler = "configure" => effects.surface_created)
    /\ []((effects.configured /\ ~effects.surface_created) => ~effects.presented)
    /\ [](\A l \in AllLayers :
             IsSome(l.gpu_state) =>
                Unwrap(l.gpu_state).canvas.resolution = Some(Unwrap(l.gpu_state).surface_config))
    /\ [][\A s \in layer_surfaces :
             (gpu_frame(s, "Ok") /\ effects'.rendered) =>
                \E i \in 1..Len(wallpapers') : \E j \in 1..Len(wallpapers'[i].layers) :
                   LET before == Unwrap(layer_of(s).gpu_state)
                       after == wallpapers'[i].layers[j]
                   IN /\ after.layer = s
                      /\ Unwrap(after.gpu_state).surface_config = before.surface_config
                      /\ Unwrap(after.gpu_state).canvas.resolution = Some(before.surface_config)
                      /\ effects'.presented]_vars

\* A frame callback rendered and presented a frame at the size a later
\* configure event had installed.
C35_witness ==
    /\ effects.handler = "frame"
    /\ effects.rendered
    /\ effects.presented
    /\ now > 0
    /\ \E l \in AllLayers :
          /\ l.size = Some(<<5, 3>>)
          /\ IsSome(l.gpu_state)
          /\ Unwrap(l.gpu_state).canvas.start_time = 0
          /\ Unwrap(l.gpu_state).canvas.last_frame = now
          /\ Unwrap(l.gpu_state).canvas.resolution = Some(Unwrap(l.gpu_state).surface_config)
          /\ Unwrap(l.gpu_state).surface_config
                = shader_physical_size(l.size, l.fractional_scale, output_info(l.wl_output).mode)

\* C36: on every layer with GPU state at most one frame callback is
\* outstanding (requested and not yet delivered), whatever configure, scale,
\* output-update and frame events came before.
C36_one_outstanding_callback ==
    \A l \in AllLayers : IsSome(l.gpu_state) => l.frame_callbacks <= 1

\* The fields of the published PowerState that the step changes.
changed_fields ==
    {f \in {"on_battery", "battery_percentage", "lid_is_closed"} :
        power_state'[f] # power_state[f]}

applied_env == UserContext_apply(process_env.user, process_env.before).env

\* C38: the user environment is applied before the engine thread starts and
\* stays applied while the thread runs; the guard is given up, and the
\* environment restored, only by a stop whose message was sent and whose
\* join has returned, the engine thread having ended.
C38_env_applied_while_engine_runs ==
    /\ [](event_loop.pc = "dispatching" =>
            /\ process_env.pc \in {"spawned", "stopping"}
            /\ IsSome(process_env.env_guard)
            /\ process_env.env = applied_env)
    /\ [][event_loop.pc = "unstarted" /\ event_loop'.pc # "unstarted" =>
            /\ process_env.pc = "applied"
            /\ IsSome(process_env.env_guard)
            /\ process_env.env = applied_env
            /\ process_env'.env = process_env.env]_vars
    /\ [][process_env'.pc = "stopping" /\ process_env.pc # "stopping" =>
            /\ event_loop'.msgs = 1
            /\ process_env'.env = process_env.env
            /\ process_env'.env_guard = process_env.env_guard]_vars
    /\ [][(IsSome(process_env.env_guard) /\ ~IsSome(process_env'.env_guard))
             \/ (process_env.pc # "new" /\ process_env'.env # process_env.env) =>
            /\ process_env.pc = "stopping"
            /\ event_loop.pc \in {"ended", "failed"}
            /\ event_loop'.pc = event_loop.pc
            /\ process_env'.env = process_env.before]_vars

\* The handle was stopped after the engine thread had handled events under
\* an environment that differs from the caller's.
C38_witness ==
    /\ process_env.pc = "stopped"
    /\ event_loop.pc = "ended"
    /\ exit
    /\ wallpapers # initial_wallpapers(config)
    /\ applied_env # process_env.before
    /\ process_env.env = process_env.before

\* The handle's state as it would be on mains power, all else equal.
on_mains(current) ==
    IF IsNone(current) THEN current
    ELSE Some([Unwrap(current) EXCEPT !.on_battery = FALSE])

\* C39: with adjust_on_battery false, being on battery changes nothing: on
\* every frame callback of a layer with GPU state the engine pauses exactly
\* when it would pause on mains power with the same lid, percentage and
\* configuration, whatever on_battery_action is.
C39_battery_ignored_unless_adjusting ==
    [][\A s \in layer_surfaces :
          (gpu_frame_callback(s) /\ ~power_saving_config.adjust_on_battery) =>
             effects'.paused =
                should_pause_animation(on_mains(power_monitor_current), power_saving_config)]_vars

\* No other rule of should_pause_animation applies: the lid rule and the
\* on-battery rule are both off for the current state.
only_low_battery_rule ==
    /\ power_monitor
    /\ ~(power_saving_config.pause_on_lid_closed /\ power_state.lid_is_closed)
    /\ ~(power_state.on_battery /\ power_saving_config.on_battery_action = "Pause")

\* C40: where only the low-battery rule can apply, a frame callback of a
\* layer with GPU state is paused exactly when pause_on_low_battery is set
\* and the battery percentage is known and below low_battery_threshold.
C40_low_battery_pauses_below_threshold ==
    [][\A s \in layer_surfaces :
          (gpu_frame_callback(s) /\ only_low_battery_rule) =>
             effects'.paused =
                /\ power_saving_config.pause_on_low_battery
                /\ IsSome(power_state.battery_percentage)
                /\ Unwrap(power_state.battery_percentage) <
                      power_saving_config.low_battery_threshold]_vars

====
